---- MODULE Spec2Model ----
(***************************************************************************)
(* Model of git-pipe's control plane.                                      *)
(*                                                                         *)
(* Part 1: the daemon Launcher (core/v1/launcher.go).  One supervisor      *)
(* goroutine (Launcher.Run) owns `deployed' and `subscribers'; every       *)
(* public method talks to it over an unbuffered channel, so each accepted  *)
(* command is one rendezvous step.  Every spawned daemon is a goroutine    *)
(* running runDaemonLoop; its notify() and its final send on `finished'    *)
(* are rendezvous steps with the supervisor as well.                       *)
(*                                                                         *)
(* Part 2: the repository poller (pipe.Run), the background Task it        *)
(* spawns for a packaging run (dckr.Run, compose.Run) and the cached       *)
(* ingress the runs publish their routes to.                               *)
(*                                                                         *)
(* Part 3: the Repo daemon (pipe.Repo), a client of the Launcher that      *)
(* replaces the packaging daemon of its repository.                        *)
(*                                                                         *)
(* Part 4: the registry of services (core/v1 registry).                    *)
(*                                                                         *)
(* Part 5: the embedded Router, the backend of the cached ingress.         *)
(*                                                                         *)
(* Part 6: the docker packaging daemon under the Launcher, publishing its  *)
(* services in the registry.                                               *)
(*                                                                         *)
(* Part 7: one request through the embedded Router: ServeHTTP, serveRoute   *)
(* with its response writer, and the handlers of the chain (JWT, Proxy).   *)
(*                                                                         *)
(* Part 8: the DNS bridge (dns.Daemonize) over the stream of the registry. *)
(*                                                                         *)
(* Part 9: the volume storage (Restore, Backup, Schedule), the Timer task  *)
(* of the schedule and the packaging runs of one repository that use it.   *)
(*                                                                         *)
(* Part 10: the environment of the deployments (CommandRun.environment).   *)
(***************************************************************************)
EXTENDS Integers, Sequences, FiniteSets, TLC

\* ------------------------------------------------------------------ bounds
Names == {"a", "b"}          \* daemon names used by the callers of Launch/Remove
MaxInst == 2                 \* goroutines spawned in one behaviour
MaxAttempts == 2             \* runDaemon attempts of one goroutine
MaxSubs == 2                 \* Subscribe calls accepted in one behaviour
MaxBuf == 2                  \* largest buffer a subscriber asks for
MaxRuns == 2                 \* invocations of Launcher.Run
MaxSetters == 2              \* concurrent calls of Router.Set
MaxRequests == 1             \* concurrent requests in Router.ServeHTTP
MaxServices == 3             \* services registered at the same time
MaxRounds == 2               \* rounds of the Repo daemon that reach Subscribe
MaxTasks == 3                \* packaging runs spawned by the pollers in one behaviour

\* The behaviours explored are those that stay inside one of these boxes: many
\* goroutines and attempts without subscribers, one goroutine with a subscriber of
\* any buffer size, several goroutines with a one-slot subscriber, one goroutine with
\* several one-slot subscribers, and one goroutine and subscriber over several Runs.
\* The last box holds the rounds of the Repo daemon, which subscribes by itself.
Boxes ==
  { [inst |-> MaxInst, att |-> MaxAttempts, subs |-> 0, buf |-> 0, runs |-> 1, rounds |-> 0],
    [inst |-> 1, att |-> MaxAttempts, subs |-> 1, buf |-> MaxBuf, runs |-> 1, rounds |-> 0],
    [inst |-> MaxInst, att |-> 1, subs |-> 1, buf |-> 1, runs |-> 1, rounds |-> 0],
    [inst |-> 1, att |-> 1, subs |-> MaxSubs, buf |-> 1, runs |-> 1, rounds |-> 0],
    [inst |-> 1, att |-> 1, subs |-> 1, buf |-> 1, runs |-> MaxRuns, rounds |-> 0],
    [inst |-> 1, att |-> 1, subs |-> 0, buf |-> 0, runs |-> MaxRuns, rounds |-> MaxRounds] }

Fits(size) ==
  \E b \in Boxes :
    /\ size.inst <= b.inst /\ size.att <= b.att /\ size.subs <= b.subs
    /\ size.buf <= b.buf /\ size.runs <= b.runs /\ size.rounds <= b.rounds

\* ------------------------------------------------------- program constants
LauncherEventScheduled == 1
LauncherEventCreated == 2
LauncherEventCreateFailed == 4
LauncherEventReady == 8
LauncherEventRunFailed == 16
LauncherEventStopped == 32
LauncherEventRemoved == 64
LauncherEventRemoveFailed == 128

\* core.RegistryEvent
RegistryEventRegistered == 0
RegistryEventUnregistered == 1

\* the errors of the registry
ErrServiceAlreadyRegistered == "ErrServiceAlreadyRegistered"
ErrServiceDomainAlreadyUsed == "ErrServiceDomainAlreadyUsed"

\* pipe.DefaultBuffer: the buffer of the Repo daemon's subscription
DefaultBuffer == 1024

\* errors a daemon operation can return, as errors.Is(err, context.Canceled) sees them
ErrNil == "nil"
ErrCanceled == "context.Canceled"
ErrOther == "error"
ErrPollSource == "poll source"
errUnknownPackage == "unknown packaging for repo"
DaemonErrors == {ErrNil, ErrCanceled, ErrOther}

VARIABLES
  isRunning,    \* Launcher.isRunning (0/1)
  supPc,        \* position of Launcher.Run: "idle", "loop" (main select), "drain" (second loop)
  runs,         \* number of Run invocations that passed the CAS
  ctxDone,      \* the context given to the current Run is cancelled
  deployed,     \* Launcher.deployed: name -> [stop, lastEvent]
  subscribers,  \* Launcher.subscribers: set of channel ids (map keys)
  chans,        \* every channel made by Subscribe: [cap, buf, closed]
  inst,         \* every goroutine started by spawn: [name, pc, stopped, ready, attempts, removeCtx]
  hist,         \* per name: the kinds of event, among Precedents, distributed so far
  lastCall,     \* per name: the last call/return of Create, Run, Remove
  panicked      \* the process died on a Go runtime panic

vars == <<isRunning, supPc, runs, ctxDone, deployed, subscribers, chans, inst,
          hist, lastCall, panicked>>

VARIABLES
  poller,             \* per repository: the goroutine of pipe.Run [pc, force, current, ctxDone]
  task,               \* every internal.Task made by Spawn: [repo, kind, ports, pc, cancelled, err]
  domainsByGroup,     \* cachedIngress.domainsByGroup
  addressesByDomain,  \* cachedIngress.addressesByDomain: domain -> [group, list]
  backend,            \* the record list of the last Backend.Set
  accepted            \* per group: the routes of its last Set that passed the domain check, none after a Clear

pollVars == <<poller, task, domainsByGroup, addressesByDomain, backend, accepted>>

VARIABLES
  repo                \* the Repo daemon (pipe.Repo): [pc, force, ctxDone, updates, ready, err]

repoVars == <<repo>>

VARIABLES
  reg,                \* the registry: [made, rootDomain, namespaces, byDomain, listeners]
  regErr,             \* what the last call of Register returned
  streams,            \* the channels made by registry.Subscribe
  crashed             \* an unrecovered panic has ended the process

regVars == <<reg, regErr, streams, crashed>>

VARIABLES
  routes,             \* Router.routes, the atomic value holding the routing table
  setter,             \* the calls of Router.Set: [pc, index]
  request             \* the requests in ServeHTTP: [pc, domain, loaded, record, page, current]

routerVars == <<routes, setter, request>>

VARIABLES
  dd                  \* the docker daemons: [attempt, step, next, services]

dockerVars == <<dd>>

\* ---- part 7: a request served by the embedded Router
VARIABLES
  http                \* the request in ServeHTTP: what was asked, the response writer, the chain

httpVars == <<http>>

VARIABLES
  setErr              \* what the last call of a client of the ingress returned, and the call

clientVars == <<setErr>>

VARIABLES
  dnsd                \* the DNS bridge daemon (dns.Daemonize): [pc, ctxDone, buf, closed, listed, domain, registered]

dnsVars == <<dnsd>>

VARIABLES
  bk                  \* the volume storage: its schedule, the operation in progress, files and volumes

backupVars == <<bk>>

VARIABLES
  environ             \* CommandRun.environment: its inputs and the map it returned

envVars == <<environ>>

\* the state of the parts 8 to 10
lateVars == <<dnsVars, backupVars, envVars>>

\* the state of the parts a Launcher step does not touch
others == <<pollVars, repoVars, regVars, routerVars, dockerVars, httpVars, clientVars, lateVars>>

\* the state of the parts a step of a poller or of a packaging run does not touch
notPoll == <<vars, repoVars, regVars, routerVars, dockerVars, httpVars, clientVars, lateVars>>

\* the state of the parts a call by a client of the ingress by itself does not touch
notIngress == <<vars, repoVars, regVars, routerVars, dockerVars, httpVars, lateVars>>

\* the state of the parts a step of the Repo daemon does not touch
notRepo == <<pollVars, regVars, routerVars, dockerVars, httpVars, clientVars, lateVars>>

\* the state of the parts a step of the registry does not touch
notReg == <<vars, pollVars, repoVars, routerVars, dockerVars, httpVars, clientVars, lateVars>>

\* the state of the parts a step of the Router does not touch
notRouter == <<vars, pollVars, repoVars, regVars, dockerVars, httpVars, clientVars, lateVars>>

\* the state of the parts a step inside a docker daemon does not touch
notDocker == <<vars, pollVars, repoVars, routerVars, httpVars, clientVars, lateVars>>

\* the state of the parts a step of a request in the Router does not touch
notHttp == <<vars, pollVars, repoVars, regVars, routerVars, dockerVars, clientVars, lateVars>>

\* all but the parts 8 to 10
early == <<vars, pollVars, repoVars, regVars, routerVars, dockerVars, httpVars, clientVars>>

\* the state of the parts a step of the DNS bridge does not touch
notDns == <<early, backupVars, envVars>>

\* the state of the parts a step of the volume storage does not touch
notBackup == <<early, dnsVars, envVars>>

\* the state of the parts a call of CommandRun.environment does not touch
notEnv == <<early, dnsVars, backupVars>>

\* ---------------------------------------------------------------- helpers
LauncherEventMessage(event, daemon, err) == [Event |-> event, Daemon |-> daemon, Error |-> err]

\* the events whose earlier distribution the ordering properties ask about
Precedents == {LauncherEventScheduled, LauncherEventCreated}

NoCall == [op |-> "none", ph |-> "none", err |-> ErrNil]
NoCtx == [parent |-> "none", timeout |-> "none"]

Range(s) == {s[k] : k \in 1..Len(s)}

Min(x, y) == IF x < y THEN x ELSE y

\* all orders in which a Go `range' over a map with key set S can visit it
Orders(S) == {s \in [1..Cardinality(S) -> S] : \A x, y \in 1..Cardinality(S) : x # y => s[x] # s[y]}

Max(S) == IF S = {} THEN 0 ELSE CHOOSE x \in S : \A y \in S : y <= x

\* how much of the bounds the behaviour has used
Size ==
  LET own == {c \in DOMAIN chans : chans[c].cap = DefaultBuffer}
  IN [inst |-> Len(inst), att |-> Max({inst[i].attempts : i \in DOMAIN inst}),
      subs |-> Len(chans) - Cardinality(own),
      buf |-> Max({chans[c].cap : c \in DOMAIN chans \ own}), runs |-> runs,
      rounds |-> Cardinality(own)]

\* goroutines of spawn that have not yet completed their send on `finished'
Live == {i \in 1..Len(inst) : inst[i].pc # "done"}

LiveOf(name) == {i \in Live : inst[i].name = name}

\* ctx.Done() of the goroutine's child context is ready
Cancelled(i) == inst[i].stopped

\* ------------------------------------------- part 2: names and first state
\* repository names (core.Environment.Name), as the labels of the domain they make
RepoNames == {<<"x">>, <<"web", "x">>}

\* the sets of ports an image or a compose service may expose
PortSets == {{"80"}}

\* the compose service of a multi-container repository
ComposeService == "web"

NoTask == 0

\* the domains and the address lists the clients of the ingress by itself ask for
RouteDomains == {<<"x">>, <<"web", "x">>, <<"80", "x">>}
RouteAddresses == {<<"10.0.0.1:80">>, <<"10.0.0.2:80">>}

\* pipe.Run: `var force = true', no current task, about to poll
PollInit ==
  /\ poller = [r \in RepoNames |-> [pc |-> "poll", force |-> TRUE, current |-> NoTask,
                                    ctxDone |-> FALSE]]
  /\ task = << >>
  /\ domainsByGroup = << >>
  /\ addressesByDomain = << >>
  /\ backend = {}
  /\ accepted = [r \in RepoNames |-> << >>]

\* --------------------------------------------------- part 3: first state
\* the name of the repository served by the Repo daemon, and so of its packaging daemon
RepoName == "a"

\* the name the Repo daemon itself runs under
RepoDaemon == "b"

NoChannel == 0

\* pipe.Repo: `force = true'; FuncTimer is about to call the handler
RepoInit ==
  repo = [pc |-> "handler", force |-> TRUE, ctxDone |-> FALSE, updates |-> NoChannel, ready |-> 0,
          err |-> ErrNil]

\* --------------------------------------------------- part 4: first state
\* strings, as sequences of characters
RootDomains == {<< >>, <<"r">>}
Namespaces == {<<"a">>, <<"b">>}
ServiceNames == {<< >>, <<"a">>, <<"a", ".", "b">>}
ServiceDomains == {<< >>, <<"a", ".", "b">>, <<"a", ".", "b", ".", "r">>, <<"r">>}

\* core.Service, without its addresses
Services == [Namespace : Namespaces, Name : ServiceNames, Domain : ServiceDomains]

\* a nil map
Nil == "nil"

\* no registry yet
RegInit ==
  /\ reg = [made |-> FALSE, rootDomain |-> << >>, namespaces |-> << >>, byDomain |-> << >>,
            listeners |-> Nil]
  /\ regErr = ErrNil
  /\ streams = << >>
  /\ crashed = FALSE

\* --------------------------------------------------- part 5: first state
\* the root domain of the Router's resolver, ByDomain("r")
RouterRoot == <<"r">>

\* a value of rt.routes: `ok' is the outcome of the type assertion on Load()
Table(index) == [ok |-> TRUE, index |-> index]

\* the zero atomic.Value: Load() returns nil and the type assertion fails
NoRoutes == [ok |-> FALSE, index |-> << >>]

\* `record, ok := routes[domain]' when the key is missing: the zero Record and false
NotFound == [ok |-> FALSE, record |-> [Domain |-> << >>, Addresses |-> << >>, Group |-> ""]]

\* `record, ok := routes[domain]' when the key is there
Found(record) == [ok |-> TRUE, record |-> record]

\* ingress.Record, as the callers of Router.Set build it
RouteRecord(domain, address) == [Domain |-> domain, Addresses |-> <<address>>, Group |-> "g"]

\* the record lists the callers of Router.Set pass
RecordLists ==
  { << >>,
    <<RouteRecord(<<"a">>, "10.0.0.1:80")>>,
    <<RouteRecord(<<"b">>, "10.0.0.1:80")>>,
    <<RouteRecord(<<"a">>, "10.0.0.2:80"), RouteRecord(<<"b">>, "10.0.0.2:80")>> }

\* the domains requests ask for
RequestDomains == {<<"a", "r">>, <<"b", "r">>, <<"a">>}

\* embedded.New: nothing stored in rt.routes, no Set and no request in progress
RouterInit ==
  /\ routes = NoRoutes
  /\ setter = [s \in 1..MaxSetters |-> [pc |-> "idle", index |-> << >>]]
  /\ request = [q \in 1..MaxRequests |->
                 [pc |-> "idle", domain |-> << >>, loaded |-> NoRoutes, record |-> NotFound,
                  page |-> NoRoutes, current |-> {}]]

\* --------------------------------------------------- part 6: first state
\* the characters of the daemon names
NameChars == [n \in Names |-> IF n = "a" THEN <<"x">> ELSE <<"x", ".", "r">>]

\* image.Config.ExposedPorts in the order declaredPorts ranges over it
PortLists == {<<80>>, <<8080, 80>>}

\* dckr.New: nothing created yet
DockerInit ==
  dd = [i \in 1..MaxInst |-> [attempt |-> 0, step |-> "called", next |-> 0, services |-> << >>]]

\* --------------------------------------------------- part 7: first state
\* Strings that are compared under case folding are sequences of characters.
GET == <<"G", "E", "T">>
POST == <<"P", "O", "S", "T">>

\* no request in the Router.  status is the status the client received (0: none),
\* header the response's X-Correlation-ID as the handlers left it and sent the one
\* that went out with the status.
NoHttp ==
  [pc |-> "idle",
   request |-> [method |-> << >>, authorization |-> << >>, query |-> << >>, corr |-> ""],
   table |-> NoRoutes, domain |-> << >>, chain |-> << >>, disableIndex |-> FALSE,
   hijacker |-> FALSE, routed |-> FALSE, record |-> NotFound.record, k |-> 1,
   invoked |-> << >>, jwt |-> 0, user |-> << >>, err |-> ErrNil, address |-> "",
   upstream |-> "", status |-> 0, page |-> "", header |-> "", sent |-> "",
   statusWritten |-> [wrapped |-> FALSE, copy |-> FALSE], hijacked |-> FALSE]

HttpInit == http = NoHttp

\* ------------------------------------------- the clients of the ingress
\* the value a call of the ingress returned to its client: the error with its
\* LeaserGroup, and the call (group, domains) it answers
Returned(err, LeaserGroup, group, domains) ==
  [err |-> err, LeaserGroup |-> LeaserGroup, group |-> group, domains |-> domains]

NoCallYet == Returned(ErrNil, << >>, << >>, {})

ClientInit == setErr = NoCallYet

\* --------------------------------------------------- part 8: first state
\* the DNS bridge is not running; it has no stream
NoDns == [pc |-> "idle", ctxDone |-> FALSE, buf |-> << >>, closed |-> FALSE, listed |-> FALSE,
          domain |-> << >>, registered |-> {}]

DnsInit == dnsd = NoDns

\* --------------------------------------------------- part 9: first state
MaxDeploys == 2              \* packaging runs the poller spawns for the one repository
MaxTicks == 2                \* ticks of the backup schedule of one packaging run

\* the temporary files of one operation of the volume storage
Raw == "rawFile"
Encrypted == "encryptedFile"

\* the volume of the repository and the artefact the backend keeps under its name
NoVolume == [exists |-> FALSE, content |-> {}]
NoArtefact == [exists |-> FALSE, content |-> {}]

\* one call of VolumeStorage.Restore or VolumeStorage.Backup: the statement it is at,
\* the temporary files it created that are still on disk, those a deferred
\* os.RemoveAll is registered for, the error it returned, the volume as it was on
\* entry, what the backend answered and whether Decrypt, the extraction, the archiving,
\* Encrypt and the upload ran
NoOp == [step |-> "none", files |-> {}, deferred |-> {}, err |-> ErrNil, entry |-> NoVolume,
         answer |-> ErrNil, decrypted |-> FALSE, extracted |-> FALSE,
         archive |-> {}, uploaded |-> FALSE]

\* one packaging run (dckr.Run, compose.Run) spawned by the poller: the position of
\* its goroutine, its context, its error, its Restore, and the Timer task of its
\* backup schedule with the Backup of the tick in progress
NoDeploy == [run |-> "none", cancelled |-> FALSE, err |-> ErrNil, restore |-> NoOp,
             timer |-> "none", timerCancelled |-> FALSE, backup |-> NoOp,
             ticks |-> 0, failures |-> 0]

NoBackup == [world |-> "unset", volume |-> NoVolume, artefact |-> NoArtefact,
             polling |-> "idle", current |-> 0, spawned |-> 0,
             dep |-> [i \in 1..MaxDeploys |-> NoDeploy]]

BackupInit == bk = NoBackup

\* --------------------------------------------------- part 10: first state

\* environment() has not been called
NoEnv == [pc |-> "idle", files |-> << >>, system |-> << >>,
          result |-> [err |-> ErrNil, env |-> << >>]]

EnvInit == environ = NoEnv

Init ==
  /\ DnsInit
  /\ BackupInit
  /\ EnvInit
  /\ ClientInit
  /\ HttpInit
  /\ PollInit
  /\ RepoInit
  /\ RegInit
  /\ RouterInit
  /\ DockerInit
  /\ isRunning = 0
  /\ supPc = "idle"
  /\ runs = 0
  /\ ctxDone = FALSE
  /\ deployed = << >>
  /\ subscribers = {}
  /\ chans = << >>
  /\ inst = << >>
  /\ hist = [n \in Names |-> {}]
  /\ lastCall = [n \in Names |-> NoCall]
  /\ panicked = FALSE

\* ------------------------------------------------- Launcher: the supervisor
SupReceiving == supPc \in {"loop", "drain"} /\ ~panicked

\* a spawn that does not look at run.deployed
isDeployedNever(name) == FALSE

\* Launcher.isDeployed
isDeployed(name) == name \in DOMAIN deployed

\* the goroutine record `go func() { runDaemonLoop; finished <- name }' starts with;
\* `child' is derived from the Run context, so it is born cancelled when that one is
NewGoroutine(name) ==
  [name |-> name, pc |-> "start", stopped |-> ctxDone, ready |-> 0, attempts |-> 0,
   removeCtx |-> NoCtx]

\* the entry spawn stores in run.deployed: the cancel function of goroutine i and
\* the Scheduled message as lastEvent
runningDaemon(i, name) ==
  [stop |-> i, lastEvent |-> LauncherEventMessage(LauncherEventScheduled, name, ErrNil)]

\* a spawn that starts a goroutine for a live name too and stores a new entry
spawnAgain(name) ==
  /\ Fits([Size EXCEPT !.inst = @ + 1, !.att = Max({@, 1})])
  /\ inst' = Append(inst, NewGoroutine(name))
  /\ deployed' = [n \in DOMAIN deployed \cup {name} |->
                    IF n = name THEN runningDaemon(Len(inst) + 1, name) ELSE deployed[n]]

\* Launcher.spawn, run by the main loop when a Launch is accepted on toDeploy
spawn(name) ==
  IF isDeployed(name)
  THEN UNCHANGED <<deployed, inst>>
  ELSE /\ Fits([Size EXCEPT !.inst = @ + 1, !.att = Max({@, 1})])
       /\ inst' = Append(inst, NewGoroutine(name))
       /\ deployed' = [n \in DOMAIN deployed \cup {name} |->
                         IF n = name THEN runningDaemon(Len(inst) + 1, name) ELSE deployed[n]]

\* case descriptor := <-run.toDeploy   (a caller's Launch is accepted)
Launch(name) ==
  /\ supPc = "loop" /\ ~panicked
  /\ spawn(name)
  /\ UNCHANGED <<isRunning, supPc, runs, ctxDone, subscribers, chans, hist, lastCall, panicked>>
  /\ UNCHANGED others

\* d.stop(): cancel the child context of the goroutine the entry belongs to
stop(d, goroutines) == [goroutines EXCEPT ![d.stop].stopped = TRUE]

\* Launcher.destroy
destroy(name) ==
  IF name \in DOMAIN deployed
  THEN inst' = stop(deployed[name], inst)
  ELSE UNCHANGED inst

\* case name := <-run.toDestroy   (a caller's Remove is accepted)
Remove(name) ==
  /\ supPc = "loop" /\ ~panicked
  /\ destroy(name)
  /\ UNCHANGED <<isRunning, supPc, runs, ctxDone, deployed, subscribers, chans, hist,
                 lastCall, panicked>>
  /\ UNCHANGED others

\* a `finished' case that forgets the delete
deleteDeployedKeeps(name) == deployed

\* delete(run.deployed, name)
deleteDeployed(name) == [n \in DOMAIN deployed \ {name} |-> deployed[n]]

\* case name := <-run.finished, in both loops: goroutine i completes its send
Finished(i) ==
  /\ SupReceiving
  /\ i \in 1..Len(inst) /\ inst[i].pc = "finish"
  /\ deployed' = deleteDeployed(inst[i].name)
  /\ inst' = [inst EXCEPT ![i] = [NewGoroutine(inst[i].name) EXCEPT
                                     !.pc = "done", !.stopped = inst[i].stopped]]
  /\ UNCHANGED <<isRunning, supPc, runs, ctxDone, subscribers, chans, hist, lastCall, panicked>>
  /\ UNCHANGED others

\* a send that puts the message in front of the queued ones
sendFront(buf, cap, item) == IF Len(buf) < cap THEN <<item>> \o buf ELSE buf

\* `select { case ch <- event: default: }' on one subscriber channel: the message is
\* queued when the buffer has room and dropped otherwise
send(buf, cap, item) == IF Len(buf) < cap THEN Append(buf, item) ELSE buf

\* one subscriber's share of distributeEvent
offer(ch, event) == [ch EXCEPT !.buf = send(@, ch.cap, event)]

\* a loop that gives up at a full subscriber channel
fanOutUntilFull(event) ==
  IF \E c \in subscribers : Len(chans[c].buf) >= chans[c].cap
  THEN chans
  ELSE [c \in DOMAIN chans |-> IF c \in subscribers THEN offer(chans[c], event) ELSE chans[c]]

\* the loop of distributeEvent over run.subscribers
fanOut(event) ==
  [c \in DOMAIN chans |-> IF c \in subscribers THEN offer(chans[c], event) ELSE chans[c]]

\* Launcher.distributeEvent.  A send on a closed channel panics.
distributeEvent(event) ==
  /\ deployed' = IF event.Daemon \in DOMAIN deployed
                 THEN [deployed EXCEPT ![event.Daemon].lastEvent = event]
                 ELSE deployed
  /\ hist' = [hist EXCEPT ![event.Daemon] = @ \cup ({event.Event} \cap Precedents)]
  /\ IF \E c \in subscribers : chans[c].closed
     THEN panicked' = TRUE /\ UNCHANGED chans
     ELSE /\ chans' = fanOut(event)
          /\ UNCHANGED panicked

\* a replay that hands over the event an entry was created with
replayScheduled(ch, order) ==
  [ch EXCEPT !.buf =
     [k \in 1..Min(ch.cap, Len(order)) |->
        [deployed[order[k]].lastEvent EXCEPT !.Event = LauncherEventScheduled]]]

\* Launcher.replay: range over run.deployed in map order, stop at the first full buffer
replay(ch, order) ==
  [ch EXCEPT !.buf =
     [k \in 1..Min(ch.cap, Len(order)) |-> deployed[order[k]].lastEvent]]

\* Launcher.Subscribe accepted:  case subs := <-run.toSubscribe
Subscribe(buffer, withReplay) ==
  /\ supPc = "loop" /\ ~panicked
  /\ Fits([Size EXCEPT !.subs = @ + 1, !.buf = Max({@, buffer})])
  /\ LET ch == [cap |-> buffer, buf |-> << >>, closed |-> FALSE]
     IN  \E order \in Orders(DOMAIN deployed) :
           chans' = Append(chans, IF withReplay THEN replay(ch, order) ELSE ch)
  /\ subscribers' = subscribers \cup {Len(chans) + 1}
  /\ UNCHANGED <<isRunning, supPc, runs, ctxDone, deployed, inst, hist, lastCall, panicked>>
  /\ UNCHANGED others

\* close(v): closing a closed channel panics
close(c) ==
  IF chans[c].closed
  THEN panicked' = TRUE /\ UNCHANGED chans
  ELSE chans' = [chans EXCEPT ![c].closed = TRUE] /\ UNCHANGED panicked

\* Launcher.Unsubscribe accepted, in both loops:  case ch := <-run.toUnsubscribe
Unsubscribe(c) ==
  /\ SupReceiving
  /\ c \in DOMAIN chans
  /\ IF c \in subscribers
     THEN close(c) /\ subscribers' = subscribers \ {c}
     ELSE UNCHANGED <<chans, subscribers, panicked>>
  /\ UNCHANGED <<isRunning, supPc, runs, ctxDone, deployed, inst, hist, lastCall>>
  /\ UNCHANGED others

\* the subscriber receives the next message of its stream
Receive(c) ==
  /\ ~panicked
  /\ c \in DOMAIN chans /\ chans[c].buf # << >>
  /\ chans' = [chans EXCEPT ![c].buf = Tail(@)]
  /\ UNCHANGED <<isRunning, supPc, runs, ctxDone, deployed, subscribers, inst, hist,
                 lastCall, panicked>>
  /\ UNCHANGED others

\* Launcher.Run is entered: the CompareAndSwap of isRunning succeeds
RunEnter ==
  /\ ~panicked
  /\ isRunning = 0 /\ Fits([Size EXCEPT !.runs = @ + 1])
  /\ isRunning' = 1 /\ runs' = runs + 1
  /\ supPc' = "loop"
  /\ ctxDone' = FALSE
  /\ UNCHANGED <<deployed, subscribers, chans, inst, hist, lastCall, panicked>>
  /\ UNCHANGED others

\* the context given to Run is cancelled; every child context is cancelled with it
CancelRun ==
  /\ ~panicked
  /\ isRunning = 1 /\ ~ctxDone
  /\ ctxDone' = TRUE
  /\ inst' = [i \in DOMAIN inst |-> [inst[i] EXCEPT !.stopped = TRUE]]
  /\ UNCHANGED <<isRunning, supPc, runs, deployed, subscribers, chans, hist, lastCall, panicked>>
  /\ UNCHANGED others

\* `for _, d := range run.deployed { d.stop() }'
stopAll(goroutines) ==
  [i \in DOMAIN goroutines |->
     IF \E n \in DOMAIN deployed : deployed[n].stop = i
     THEN [goroutines[i] EXCEPT !.stopped = TRUE]
     ELSE goroutines[i]]

\* case <-ctx.Done(): break LOOP, then request all daemons to finish
RunBreak ==
  /\ supPc = "loop" /\ ~panicked
  /\ ctxDone
  /\ inst' = stopAll(inst)
  /\ supPc' = "drain"
  /\ UNCHANGED <<isRunning, runs, ctxDone, deployed, subscribers, chans, hist, lastCall, panicked>>
  /\ UNCHANGED others

\* a Run that does not wait for its daemons
drainedEarly == TRUE

\* the second loop is left when run.deployed is empty
drained == DOMAIN deployed = {}

\* `for len(run.deployed) > 0' ends; close every channel of run.subscribers (the map
\* keeps its keys); the deferred store resets isRunning
RunReturn ==
  /\ supPc = "drain" /\ ~panicked
  /\ drained
  /\ IF \E c \in subscribers : chans[c].closed
     THEN panicked' = TRUE /\ UNCHANGED <<chans, isRunning, supPc>>
     ELSE /\ chans' = [c \in DOMAIN chans |->
                         IF c \in subscribers THEN [chans[c] EXCEPT !.closed = TRUE] ELSE chans[c]]
          /\ isRunning' = 0
          /\ supPc' = "idle"
          /\ UNCHANGED panicked
  /\ UNCHANGED <<runs, ctxDone, deployed, subscribers, inst, hist, lastCall>>
  /\ UNCHANGED others

\* ------------------------------------------- Launcher: one daemon goroutine
\* A return of Create, Run or Remove is local to the goroutine and the notify() that
\* follows it is a rendezvous with the supervisor; the two are one step here.

\* notify(): the message reaches the supervisor over the unbuffered run.events and
\* is distributed by `case event := <-run.events' of either loop
notify(event, name, err) ==
  /\ SupReceiving
  /\ distributeEvent(LauncherEventMessage(event, name, err))

\* bookkeeping of the daemon interface: operation `op' of daemon `name' is called
\* (ph = "call") or has returned err (ph = "ok" / "fail")
called(name, op, ph, err) ==
  lastCall' = [lastCall EXCEPT ![name] = [op |-> op, ph |-> ph, err |-> err]]

Outcome(e) == IF e = ErrNil THEN "ok" ELSE "fail"

\* runDaemon is entered: a fresh daemonEnvironment (ready = 0), then Daemon.Create
enterCreate(g) ==
  [g EXCEPT !.pc = "Create", !.ready = 0, !.attempts = @ + 1, !.removeCtx = NoCtx]

\* a runDaemonLoop that returns after the first attempt, whatever its error
afterAttemptLeaves(g, err) == [g EXCEPT !.pc = "finish", !.removeCtx = NoCtx]

\* runDaemonLoop after runDaemon returned err: leave on context.Canceled, else wait
afterAttempt(g, err) ==
  [g EXCEPT !.pc = IF err = ErrCanceled THEN "finish" ELSE "retryWait", !.removeCtx = NoCtx]

\* the goroutine started by spawn makes its first call of runDaemon
FirstAttempt(i) ==
  /\ ~panicked
  /\ i \in DOMAIN inst /\ inst[i].pc = "start"
  /\ inst' = [inst EXCEPT ![i] = enterCreate(@)]
  /\ called(inst[i].name, "Create", "call", ErrNil)
  /\ UNCHANGED <<isRunning, supPc, runs, ctxDone, deployed, subscribers, chans, hist, panicked>>
  /\ UNCHANGED others

\* daemonEnvironment.Ready, called by the daemon from inside Create, Run or Remove
Ready(i) ==
  /\ i \in DOMAIN inst /\ inst[i].pc \in {"Create", "Run", "Remove"}
  /\ inst[i].ready = 0
  /\ notify(LauncherEventReady, inst[i].name, ErrNil)
  /\ inst' = [inst EXCEPT ![i].ready = 1]
  /\ UNCHANGED <<isRunning, supPc, runs, ctxDone, subscribers, lastCall>>
  /\ UNCHANGED others

\* runDaemon when Create returned an error e: notify(CreateFailed) and
\* return fmt.Errorf("build: %w", err), with no Run and no Remove
createFailed(g, e) == afterAttempt(g, e)

\* Daemon.Create returns e:  notify(CreateFailed) and return, or notify(Created)
\* and the call of Daemon.Run
CreateReturns(i, e) ==
  /\ i \in DOMAIN inst /\ inst[i].pc = "Create"
  /\ IF e = ErrNil
     THEN /\ notify(LauncherEventCreated, inst[i].name, ErrNil)
          /\ inst' = [inst EXCEPT ![i].pc = "Run"]
          /\ called(inst[i].name, "Run", "call", ErrNil)
     ELSE /\ notify(LauncherEventCreateFailed, inst[i].name, ErrNil)
          /\ inst' = [inst EXCEPT ![i] = createFailed(@, e)]
          /\ called(inst[i].name, "Create", "fail", e)
  /\ UNCHANGED <<isRunning, supPc, runs, ctxDone, subscribers>>
  /\ UNCHANGED others

\* context.WithTimeout(context.Background(), run.cleanupTimeout)
removeContext == [parent |-> "Background", timeout |-> "cleanupTimeout"]

\* a runDaemon that returns after Stopped without calling Remove
afterStoppedSkipsRemove(g) == afterAttempt(g, ErrNil)

\* runDaemon once Stopped is notified: Daemon.Remove is called with removeCtx
afterStopped(g) == [g EXCEPT !.pc = "Remove", !.removeCtx = removeContext]

\* notify(Stopped), then the call of Daemon.Remove
NotifyStopped(i) ==
  /\ notify(LauncherEventStopped, inst[i].name, ErrNil)
  /\ inst' = [inst EXCEPT ![i] = afterStopped(@)]
  /\ IF inst'[i].pc = "Remove"
     THEN called(inst[i].name, "Remove", "call", ErrNil)
     ELSE called(inst[i].name, "Run", "ok", ErrNil)

\* a runDaemon that returns the error of Run instead of falling through
afterRunFailedReturns(g) == afterAttempt(g, ErrOther)

\* runDaemon after notify(RunFailed): fall through to Stopped and Remove
afterRunFailed(g) == [g EXCEPT !.pc = "notifyStopped"]

\* Daemon.Run returns an error: notify(RunFailed), fall through
RunFails(i) ==
  /\ i \in DOMAIN inst /\ inst[i].pc = "Run"
  /\ notify(LauncherEventRunFailed, inst[i].name, ErrNil)
  /\ inst' = [inst EXCEPT ![i] = afterRunFailed(@)]
  /\ called(inst[i].name, "Run", "fail", ErrOther)
  /\ UNCHANGED <<isRunning, supPc, runs, ctxDone, subscribers>>
  /\ UNCHANGED others

\* notify(Stopped) after a failed Run
StoppedAfterRunFailed(i) ==
  /\ i \in DOMAIN inst /\ inst[i].pc = "notifyStopped"
  /\ NotifyStopped(i)
  /\ UNCHANGED <<isRunning, supPc, runs, ctxDone, subscribers>>
  /\ UNCHANGED others

\* Daemon.Run returns nil: notify(Stopped)
RunReturns(i) ==
  /\ i \in DOMAIN inst /\ inst[i].pc = "Run"
  /\ NotifyStopped(i)
  /\ UNCHANGED <<isRunning, supPc, runs, ctxDone, subscribers>>
  /\ UNCHANGED others

\* Daemon.Remove returns e:  notify(RemoveFailed) and return fmt.Errorf("remove: %w", err),
\* or notify(Removed) and return nil
RemoveReturns(i, e) ==
  /\ i \in DOMAIN inst /\ inst[i].pc = "Remove"
  /\ notify(IF e = ErrNil THEN LauncherEventRemoved ELSE LauncherEventRemoveFailed,
            inst[i].name, ErrNil)
  /\ inst' = [inst EXCEPT ![i] = afterAttempt(@, e)]
  /\ called(inst[i].name, "Remove", Outcome(e), e)
  /\ UNCHANGED <<isRunning, supPc, runs, ctxDone, subscribers>>
  /\ UNCHANGED others

\* a retry wait that sleeps without watching ctx.Done()
retryReadyAlways(g) == g.pc = "retryWait"

\* the select of runDaemonLoop may take `case <-time.After(run.retryDeployInterval)':
\* the timer (a positive interval) wins only while ctx.Done() is not ready
retryReady(g) == g.pc = "retryWait" /\ ~g.stopped

\* case <-time.After(run.retryDeployInterval): the next attempt
RetryTimer(i) ==
  /\ ~panicked
  /\ i \in DOMAIN inst /\ retryReady(inst[i])
  /\ Fits([Size EXCEPT !.att = Max({@, inst[i].attempts + 1})])
  /\ inst' = [inst EXCEPT ![i] = enterCreate(@)]
  /\ called(inst[i].name, "Create", "call", ErrNil)
  /\ UNCHANGED <<isRunning, supPc, runs, ctxDone, deployed, subscribers, chans, hist, panicked>>
  /\ UNCHANGED others

\* case <-ctx.Done(): return
RetryCtxDone(i) ==
  /\ ~panicked
  /\ i \in DOMAIN inst /\ inst[i].pc = "retryWait" /\ Cancelled(i)
  /\ inst' = [inst EXCEPT ![i].pc = "finish"]
  /\ UNCHANGED <<isRunning, supPc, runs, ctxDone, deployed, subscribers, chans, hist,
                 lastCall, panicked>>
  /\ UNCHANGED others

\* ------------------------------------------------------------ specification
Next ==
  \/ RunEnter
  \/ CancelRun
  \/ RunBreak
  \/ RunReturn
  \/ \E name \in Names : Launch(name)
  \/ \E name \in Names : Remove(name)
  \/ \E buffer \in 1..MaxBuf, withReplay \in BOOLEAN : Subscribe(buffer, withReplay)
  \/ \E c \in 1..MaxSubs : Unsubscribe(c)
  \/ \E c \in 1..MaxSubs : Receive(c)
  \/ \E i \in 1..MaxInst : Finished(i)
  \/ \E i \in 1..MaxInst : FirstAttempt(i)
  \/ \E i \in 1..MaxInst : Ready(i)
  \/ \E i \in 1..MaxInst, e \in DaemonErrors : CreateReturns(i, e)
  \/ \E i \in 1..MaxInst : RunFails(i)
  \/ \E i \in 1..MaxInst : StoppedAfterRunFailed(i)
  \/ \E i \in 1..MaxInst : RunReturns(i)
  \/ \E i \in 1..MaxInst, e \in DaemonErrors : RemoveReturns(i, e)
  \/ \E i \in 1..MaxInst : RetryTimer(i)
  \/ \E i \in 1..MaxInst : RetryCtxDone(i)

Spec == Init /\ [][Next]_vars

\* Scheduling: the Go scheduler runs every runnable goroutine, the supervisor's select
\* takes a case that stays ready, a cancelled context is seen by the select waiting on
\* it, and (the proviso of the termination claims) every call of Create, Run and
\* Remove returns.
Fairness ==
  /\ WF_vars(RunBreak)
  /\ WF_vars(RunReturn)
  /\ \A i \in 1..MaxInst :
       /\ WF_vars(Finished(i))
       /\ WF_vars(FirstAttempt(i))
       /\ WF_vars(\E e \in DaemonErrors : CreateReturns(i, e))
       /\ WF_vars(RunFails(i) \/ RunReturns(i))
       /\ WF_vars(StoppedAfterRunFailed(i))
       /\ WF_vars(\E e \in DaemonErrors : RemoveReturns(i, e))
       /\ WF_vars(RetryCtxDone(i))

FairSpec == Spec /\ Fairness

\* ================================================================ part 2
\* ------------------------------------------------------ the cached ingress
ingressVars == <<domainsByGroup, addressesByDomain, backend, accepted>>

ErrDomainUsed == "ErrDomainUsed"

\* ingress.Record
Record(domain, addresses) == [Domain |-> domain, Addresses |-> addresses.list, Group |-> addresses.group]

\* the domains cachedIngress.domainsByGroup holds for a group
groupDomains(group) == IF group \in DOMAIN domainsByGroup THEN domainsByGroup[group] ELSE {}

\* a clearGroup that forgets the addresses of the group
clearGroupKeepsAddresses(group) == [addresses |-> addressesByDomain,
   groups |-> [g \in DOMAIN domainsByGroup \ {group} |-> domainsByGroup[g]]]

\* cachedIngress.clearGroup: the two maps without the group
clearGroup(group) ==
  [addresses |-> [d \in DOMAIN addressesByDomain \ groupDomains(group) |-> addressesByDomain[d]],
   groups |-> [g \in DOMAIN domainsByGroup \ {group} |-> domainsByGroup[g]]]

\* the check at the head of cachedIngress.Set: a domain is held by another group
domainUsed(group, domainAddresses) ==
  \E domain \in DOMAIN domainAddresses :
    domain \in DOMAIN addressesByDomain /\ addressesByDomain[domain].group # group

\* cachedIngress.updateState: one record per entry of addressesByDomain, handed to the backend
updateState(addresses) ==
  backend' = {Record(domain, addresses[domain]) : domain \in DOMAIN addresses}

\* cachedIngress.Set once the check has passed: replace the group's routes, update the backend
IngressSet(group, domainAddresses) ==
  LET cleared == clearGroup(group)
      added == DOMAIN domainAddresses
      addresses == [d \in DOMAIN cleared.addresses \cup added |->
                      IF d \in added THEN [group |-> group, list |-> domainAddresses[d]]
                      ELSE cleared.addresses[d]]
  IN /\ addressesByDomain' = addresses
     /\ domainsByGroup' = IF added = {} THEN cleared.groups
                          ELSE [g \in DOMAIN cleared.groups \cup {group} |->
                                  IF g = group THEN added ELSE cleared.groups[g]]
     /\ updateState(addresses)
     /\ accepted' = [accepted EXCEPT ![group] = domainAddresses]

\* cachedIngress.Clear
IngressClear(group) ==
  LET cleared == clearGroup(group)
  IN /\ addressesByDomain' = cleared.addresses
     /\ domainsByGroup' = cleared.groups
     /\ updateState(cleared.addresses)
     /\ accepted' = [accepted EXCEPT ![group] = << >>]

\* ---------------------------------------------------- a packaging run (Task)
\* host:port of a container joined to the network under the link `link'
Address(link, port) == <<link, port>>

\* dckr exposedServices: <port>.<name> for every port, and <name> for one of them
exposedServices(ports, name, link, rootPort) ==
  [d \in {<<port>> \o name : port \in ports} \cup {name} |->
     IF d = name THEN <<Address(link, rootPort)>> ELSE <<Address(link, d[1])>>]

\* compose.Run: <port>.<service>.<name> for every port, <service>.<name> and <name>
exposedLinks(ports, name, link, rootPort) ==
  LET domain == <<ComposeService>> \o name
  IN [d \in {<<port>> \o domain : port \in ports} \cup {domain, name} |->
        IF d \in {domain, name} THEN <<Address(link, rootPort)>> ELSE <<Address(link, d[1])>>]

\* the routes run t publishes
published(t, rootPort) ==
  IF task[t].kind = "compose"
  THEN exposedLinks(task[t].ports, task[t].repo, t, rootPort)
  ELSE exposedServices(task[t].ports, task[t].repo, t, rootPort)

\* Task.done is closed
done(t) == task[t].pc = "done"

\* the goroutine of Spawn once the runnable returned err: `bd.err = ...', then the
\* deferred close(bd.done) and bd.cancel()
returned(g, err) == [g EXCEPT !.pc = "done", !.err = err, !.cancelled = TRUE]

\* The runnable up to its wait: everything before the ingress (cleanup, build, restore,
\* create, join, start, health) fails or not; env.Ingress.Set(ctx, env.Name, ...)
\* returns an error or the routes are set and `defer env.Ingress.Clear' is in place;
\* env.DNS.Register fails or not.
TaskPublish(t, prepared, rootPort, dns) ==
  /\ t \in DOMAIN task /\ task[t].pc = "prepare" /\ rootPort \in task[t].ports
  /\ IF ~prepared
     THEN /\ task' = [task EXCEPT ![t] = returned(@, ErrOther)]
          /\ UNCHANGED ingressVars
     ELSE IF domainUsed(task[t].repo, published(t, rootPort))
     THEN /\ task' = [task EXCEPT ![t] = returned(@, ErrDomainUsed)]
          /\ UNCHANGED ingressVars
     ELSE /\ IngressSet(task[t].repo, published(t, rootPort))
          /\ task' = [task EXCEPT ![t].pc = IF dns THEN "wait" ELSE "clear",
                                  ![t].err = IF dns THEN ErrNil ELSE ErrOther]
  /\ UNCHANGED poller
  /\ UNCHANGED notPoll

\* <-ctx.Done(); return nil
TaskCtxDone(t) ==
  /\ t \in DOMAIN task /\ task[t].pc = "wait" /\ task[t].cancelled
  /\ task' = [task EXCEPT ![t].pc = "clear"]
  /\ UNCHANGED <<poller, ingressVars>>
  /\ UNCHANGED notPoll

\* the deferred env.Ingress.Clear(context.Background(), env.Name); the runnable returns
TaskClear(t) ==
  /\ t \in DOMAIN task /\ task[t].pc = "clear"
  /\ IngressClear(task[t].repo)
  /\ task' = [task EXCEPT ![t] = returned(@, task[t].err)]
  /\ UNCHANGED poller
  /\ UNCHANGED notPoll

\* ------------------------------------------------- the repository poller
\* bd.cancel() of Task.Stop (nothing on a nil task)
cancelTask(tasks, t) == IF t = NoTask THEN tasks ELSE [tasks EXCEPT ![t].cancelled = TRUE]

\* a Stop that returns without waiting for the goroutine
stoppedAtOnce(t) == TRUE

\* `<-bd.done' of Task.Stop returns (at once on a nil task)
stopped(t) == IF t = NoTask THEN TRUE ELSE done(t)

\* internal.Spawn: a task with a child context of the poller's context
Spawn(r, kind, ports) ==
  [repo |-> r, kind |-> kind, ports |-> ports, pc |-> "prepare",
   cancelled |-> poller[r].ctxDone, err |-> ErrNil]

\* a poll that redeploys on every tick
skipNever(changed, force) == FALSE

\* `if !changed && !force { return nil }' of poller.poll and of the handler of pipe.Repo
skip(changed, force) == ~changed /\ ~force

\* The first poll, or `case <-updater.C: break STATE' and the next poll, up to `stop old':
\* MkdirAll and source.Poll fail, or nothing changed, or the current task is cancelled
\* and Stop waits for it
PollSource(r, changed, ok) ==
  /\ poller[r].pc \in {"poll", "state"}
  /\ IF ~ok
     THEN poller' = [poller EXCEPT ![r].pc = "state", ![r].force = TRUE] /\ UNCHANGED task
     ELSE IF skip(changed, poller[r].force)
     THEN poller' = [poller EXCEPT ![r].pc = "state", ![r].force = FALSE] /\ UNCHANGED task
     ELSE /\ poller' = [poller EXCEPT ![r].pc = "stopOld"]
          /\ task' = cancelTask(task, poller[r].current)
  /\ UNCHANGED ingressVars
  /\ UNCHANGED notPoll

\* poller.poll from the return of Stop: its error ends the poll; else the packaging is
\* detected and the new run spawned
PollSpawn(r, kind, ports) ==
  /\ poller[r].pc = "stopOld" /\ stopped(poller[r].current)
  /\ IF poller[r].current # NoTask /\ task[poller[r].current].err # ErrNil
     THEN poller' = [poller EXCEPT ![r].pc = "state", ![r].force = TRUE] /\ UNCHANGED task
     ELSE IF kind = "unknown"
     THEN poller' = [poller EXCEPT ![r].pc = "state", ![r].force = TRUE] /\ UNCHANGED task
     ELSE /\ Len(task) < MaxTasks
          /\ task' = Append(task, Spawn(r, kind, ports))
          /\ poller' = [poller EXCEPT ![r].pc = "state", ![r].force = FALSE,
                                      ![r].current = Len(task) + 1]
  /\ UNCHANGED ingressVars
  /\ UNCHANGED notPoll

\* case <-poller.current.Wait(): the package stopped by itself
PollPackageStopped(r) ==
  /\ poller[r].pc = "state"
  /\ poller[r].current # NoTask
  /\ done(poller[r].current)
  /\ poller' = [poller EXCEPT ![r].current = NoTask, ![r].force = TRUE]
  /\ UNCHANGED <<task, ingressVars>>
  /\ UNCHANGED notPoll

\* the context given to pipe.Run is cancelled; the tasks hold child contexts of it
PollCancel(r) ==
  /\ ~poller[r].ctxDone
  /\ poller' = [poller EXCEPT ![r].ctxDone = TRUE]
  /\ task' = [t \in DOMAIN task |->
                IF task[t].repo = r THEN [task[t] EXCEPT !.cancelled = TRUE] ELSE task[t]]
  /\ UNCHANGED ingressVars
  /\ UNCHANGED notPoll

\* case <-ctx.Done(): break LOOP, then poller.current.Stop()
PollCtxDone(r) ==
  /\ poller[r].pc = "state" /\ poller[r].ctxDone
  /\ poller' = [poller EXCEPT ![r].pc = "final"]
  /\ task' = cancelTask(task, poller[r].current)
  /\ UNCHANGED ingressVars
  /\ UNCHANGED notPoll

\* the final Stop returns and so does pipe.Run
PollReturn(r) ==
  /\ poller[r].pc = "final" /\ stopped(poller[r].current)
  /\ poller' = [poller EXCEPT ![r].pc = "exit"]
  /\ UNCHANGED <<task, ingressVars>>
  /\ UNCHANGED notPoll

PollNext ==
  \/ \E r \in RepoNames, changed \in BOOLEAN, ok \in BOOLEAN : PollSource(r, changed, ok)
  \/ \E r \in RepoNames, kind \in {"dckr", "compose", "unknown"}, ports \in PortSets :
       PollSpawn(r, kind, ports)
  \/ \E r \in RepoNames : PollPackageStopped(r)
  \/ \E r \in RepoNames : PollCancel(r)
  \/ \E r \in RepoNames : PollCtxDone(r)
  \/ \E r \in RepoNames : PollReturn(r)
  \/ \E t \in 1..MaxTasks, prepared \in BOOLEAN, rootPort \in UNION PortSets, dns \in BOOLEAN :
       TaskPublish(t, prepared, rootPort, dns)
  \/ \E t \in 1..MaxTasks : TaskCtxDone(t)
  \/ \E t \in 1..MaxTasks : TaskClear(t)

PollSpec == Init /\ [][PollNext]_pollVars

\* ------------------------------------------- the cached ingress by itself
\* Any holder of the core.Ingress may call Set and Clear, with any routes.
Routes == UNION {[D -> RouteAddresses] : D \in SUBSET RouteDomains}

\* `return &ErrDomainUsed{LeaserGroup: group}': the group of the call
leaser(group, domainAddresses) == group

\* a call of cachedIngress.Set by some client: refused with ErrDomainUsed, or done
ClientSet(group, domainAddresses) ==
  /\ IF domainUsed(group, domainAddresses)
     THEN /\ UNCHANGED ingressVars
          /\ setErr' = Returned(ErrDomainUsed, leaser(group, domainAddresses), group,
                                DOMAIN domainAddresses)
     ELSE /\ IngressSet(group, domainAddresses)
          /\ setErr' = Returned(ErrNil, << >>, group, DOMAIN domainAddresses)
  /\ UNCHANGED <<poller, task>>
  /\ UNCHANGED notIngress

\* a call of cachedIngress.Clear by some client
ClientClear(group) ==
  /\ IngressClear(group)
  /\ setErr' = Returned(ErrNil, << >>, group, {})
  /\ UNCHANGED <<poller, task>>
  /\ UNCHANGED notIngress

IngressNext ==
  \/ \E group \in RepoNames, domainAddresses \in Routes : ClientSet(group, domainAddresses)
  \/ \E group \in RepoNames : ClientClear(group)

IngressSpec == Init /\ [][IngressNext]_<<ingressVars, clientVars>>

\* ================================================================ part 3
\* The Repo daemon: core.FuncTimer around the handler of pipe.Repo.  Its calls of the
\* Launcher are rendezvous with the supervisor, selectable on the daemon's context;
\* its packaging daemon is the goroutine the supervisor spawns under RepoName.  Other
\* clients of the Launcher may launch daemons too.
launcherRest == <<isRunning, supPc, runs, ctxDone>>

\* x & y on non-negative integers
RECURSIVE And(_, _)
And(x, y) == IF x = 0 \/ y = 0 THEN 0 ELSE (x % 2) * (y % 2) + 2 * And(x \div 2, y \div 2)

\* the test of WaitForLauncherEventContext on a received item
matches(item, daemon, mask) == And(item.Event, mask) # 0 /\ item.Daemon = daemon

\* the mask of the wait the handler is in
waitMask == IF repo.pc = "waitRemoved"
            THEN LauncherEventRemoved + LauncherEventRemoveFailed
            ELSE LauncherEventScheduled

Waiting == repo.pc \in {"waitRemoved", "waitScheduled"}

\* the handler up to its call of Subscribe: source.Poll, `!changed && !force', force = true;
\* `err' is what the handler returns to FuncTimer, which logs it and waits for the tick
RepoHandler(changed, ok) ==
  /\ repo.pc = "handler" /\ ~panicked
  /\ repo' = IF ~ok
             THEN [repo EXCEPT !.pc = "tick", !.err = ErrPollSource]
             ELSE IF skip(changed, repo.force)
             THEN [repo EXCEPT !.pc = "tick", !.err = ErrNil]
             ELSE [repo EXCEPT !.pc = "subscribe", !.force = TRUE, !.err = ErrNil]
  /\ UNCHANGED vars
  /\ UNCHANGED notRepo

\* Launcher().Subscribe(ctx, DefaultBuffer, false) is accepted by the supervisor
RepoSubscribe ==
  /\ repo.pc = "subscribe"
  /\ supPc = "loop" /\ ~panicked
  /\ Fits([Size EXCEPT !.rounds = @ + 1])
  /\ chans' = Append(chans, [cap |-> DefaultBuffer, buf |-> << >>, closed |-> FALSE])
  /\ subscribers' = subscribers \cup {Len(chans) + 1}
  /\ repo' = [repo EXCEPT !.pc = "remove", !.updates = Len(chans) + 1]
  /\ UNCHANGED <<launcherRest, deployed, inst, hist, lastCall, panicked>>
  /\ UNCHANGED notRepo

\* `case <-ctx.Done(): return ctx.Err()' of Subscribe, Remove, Launch and Unsubscribe:
\* the handler returns, through the deferred Unsubscribe once it has subscribed
RepoCallCancelled ==
  /\ repo.pc \in {"subscribe", "remove", "launch", "unsubscribe"} /\ ~panicked
  /\ repo.ctxDone
  /\ repo' = IF repo.pc \in {"remove", "launch"}
             THEN [repo EXCEPT !.pc = "unsubscribe", !.err = ErrCanceled]
             ELSE [repo EXCEPT !.pc = "tick", !.updates = NoChannel,
                               !.err = IF repo.pc = "subscribe" THEN ErrCanceled ELSE @]
  /\ UNCHANGED vars
  /\ UNCHANGED notRepo

\* Launcher().Remove(ctx, name) is accepted by the supervisor
RepoRemove ==
  /\ repo.pc = "remove"
  /\ supPc = "loop" /\ ~panicked
  /\ destroy(RepoName)
  /\ repo' = [repo EXCEPT !.pc = "waitRemoved"]
  /\ UNCHANGED <<launcherRest, deployed, subscribers, chans, hist, lastCall, panicked>>
  /\ UNCHANGED notRepo

\* WaitForLauncherEvent receives an item that does not match and goes on waiting
RepoWaitSkips ==
  /\ Waiting /\ ~panicked
  /\ chans[repo.updates].buf # << >>
  /\ ~matches(Head(chans[repo.updates].buf), RepoName, waitMask)
  /\ chans' = [chans EXCEPT ![repo.updates].buf = Tail(@)]
  /\ UNCHANGED <<launcherRest, deployed, subscribers, inst, hist, lastCall, panicked>>
  /\ UNCHANGED repo
  /\ UNCHANGED notRepo

\* the handler after the wait for Removed|RemoveFailed: hasAnyFile(baseDir, "Dockerfile")
afterRemoved(dockerfile) ==
  IF dockerfile
  THEN [repo EXCEPT !.pc = "launch"]
  ELSE [repo EXCEPT !.pc = "unsubscribe", !.err = errUnknownPackage]

\* WaitForLauncherEvent returns: a matching item, or the channel is closed and empty.
\* The wait is on context.Background(): there is no case for the daemon's context.
RepoWaitReturns(dockerfile) ==
  /\ Waiting /\ ~panicked
  /\ IF chans[repo.updates].buf # << >>
     THEN /\ matches(Head(chans[repo.updates].buf), RepoName, waitMask)
          /\ chans' = [chans EXCEPT ![repo.updates].buf = Tail(@)]
     ELSE /\ chans[repo.updates].closed
          /\ UNCHANGED chans
  /\ repo' = IF repo.pc = "waitRemoved"
             THEN afterRemoved(dockerfile)
             ELSE [repo EXCEPT !.pc = "ready"]
  /\ UNCHANGED <<launcherRest, deployed, subscribers, inst, hist, lastCall, panicked>>
  /\ UNCHANGED notRepo

\* Launcher().Launch(ctx, Descriptor{Name: name, Daemon: dckr.New(...)}) is accepted
RepoLaunch ==
  /\ repo.pc = "launch"
  /\ supPc = "loop" /\ ~panicked
  /\ spawn(RepoName)
  /\ repo' = [repo EXCEPT !.pc = "waitScheduled"]
  /\ UNCHANGED <<launcherRest, subscribers, chans, hist, lastCall, panicked>>
  /\ UNCHANGED notRepo

\* environment.Ready() of the Repo daemon (CompareAndSwap, then notify), force = false
RepoReady ==
  /\ repo.pc = "ready" /\ ~panicked
  /\ IF repo.ready = 0
     THEN notify(LauncherEventReady, RepoDaemon, ErrNil)
     ELSE UNCHANGED <<deployed, hist, chans, panicked>>
  /\ repo' = [repo EXCEPT !.pc = "unsubscribe", !.ready = 1, !.force = FALSE]
  /\ UNCHANGED <<launcherRest, subscribers, inst, lastCall>>
  /\ UNCHANGED notRepo

\* the deferred Launcher().Unsubscribe(ctx, updates) is accepted; the handler returns
RepoUnsubscribe ==
  /\ repo.pc = "unsubscribe"
  /\ SupReceiving
  /\ IF repo.updates \in subscribers
     THEN close(repo.updates) /\ subscribers' = subscribers \ {repo.updates}
     ELSE UNCHANGED <<chans, subscribers, panicked>>
  /\ repo' = [repo EXCEPT !.pc = "tick", !.updates = NoChannel]
  /\ UNCHANGED <<launcherRest, deployed, inst, hist, lastCall>>
  /\ UNCHANGED notRepo

\* FuncTimer:  case <-t.C
RepoTick ==
  /\ repo.pc = "tick" /\ ~panicked
  /\ repo' = [repo EXCEPT !.pc = "handler"]
  /\ UNCHANGED vars
  /\ UNCHANGED notRepo

\* FuncTimer:  case <-ctx.Done(): return nil
RepoCtxDone ==
  /\ repo.pc = "tick" /\ repo.ctxDone /\ ~panicked
  /\ repo' = [repo EXCEPT !.pc = "returned"]
  /\ UNCHANGED vars
  /\ UNCHANGED notRepo

\* the context of the Repo daemon is cancelled
RepoCancel ==
  /\ ~repo.ctxDone /\ repo.pc # "returned"
  /\ repo' = [repo EXCEPT !.ctxDone = TRUE]
  /\ UNCHANGED vars
  /\ UNCHANGED notRepo

RepoNext ==
  \/ RunEnter
  \/ CancelRun
  \/ RunBreak
  \/ RunReturn
  \/ Launch(RepoName)
  \/ \E i \in 1..MaxInst : Finished(i)
  \/ \E i \in 1..MaxInst : FirstAttempt(i)
  \/ \E i \in 1..MaxInst : Ready(i)
  \/ \E i \in 1..MaxInst, e \in DaemonErrors : CreateReturns(i, e)
  \/ \E i \in 1..MaxInst : RunFails(i)
  \/ \E i \in 1..MaxInst : StoppedAfterRunFailed(i)
  \/ \E i \in 1..MaxInst : RunReturns(i)
  \/ \E i \in 1..MaxInst, e \in DaemonErrors : RemoveReturns(i, e)
  \/ \E i \in 1..MaxInst : RetryCtxDone(i)
  \/ \E changed \in BOOLEAN, ok \in BOOLEAN : RepoHandler(changed, ok)
  \/ RepoSubscribe
  \/ RepoCallCancelled
  \/ RepoRemove
  \/ RepoWaitSkips
  \/ \E dockerfile \in BOOLEAN : RepoWaitReturns(dockerfile)
  \/ RepoLaunch
  \/ RepoReady
  \/ RepoUnsubscribe
  \/ RepoTick
  \/ RepoCtxDone
  \/ RepoCancel

RepoSpec == Init /\ [][RepoNext]_<<vars, repoVars>>

\* ================================================================ part 4
\* The registry of services.  Every operation holds reg.lock from its first statement
\* to its return, so each one is a single step.  Strings are sequences of characters.
Dot == <<".">>

\* strings.HasSuffix
HasSuffix(s, suffix) ==
  /\ Len(s) >= Len(suffix)
  /\ SubSeq(s, Len(s) - Len(suffix) + 1, Len(s)) = suffix

\* registry.normalizeDomain
normalizeDomain(domain) ==
  IF reg.rootDomain # << >> /\ ~HasSuffix(domain, Dot \o reg.rootDomain)
  THEN domain \o Dot \o reg.rootDomain
  ELSE domain

\* registry.getDomain
getDomain(srv) ==
  normalizeDomain(IF srv.Domain = << >> THEN srv.Name \o Dot \o srv.Namespace ELSE srv.Domain)

\* core.RegistryEventMessage
RegistryEventMessage(event, service) == [Event |-> event, Service |-> service]

\* NewRegistry(rootDomain): namespaces and byDomain are made, listeners is left nil
NewRegistry(rootDomain) ==
  /\ ~reg.made
  /\ reg' = [made |-> TRUE, rootDomain |-> rootDomain, namespaces |-> << >>,
             byDomain |-> << >>, listeners |-> Nil]
  /\ UNCHANGED <<regErr, streams, crashed>>
  /\ UNCHANGED notReg

Ready4 == reg.made /\ ~crashed

\* `for _, ch := range reg.listeners': a nil map has no entries
listening == IF reg.listeners = Nil THEN {} ELSE reg.listeners

\* registry.notify: a non-blocking send to every listener
regNotify(event, service) ==
  [c \in DOMAIN streams |->
     IF c \in listening
     THEN [streams[c] EXCEPT !.buf = send(@, streams[c].cap, RegistryEventMessage(event, service))]
     ELSE streams[c]]

\* a Register that never finds the domain taken
domainExistsNever(domain) == FALSE

\* `_, exists := reg.byDomain[domain]'
domainExists(domain) == domain \in DOMAIN reg.byDomain

\* reg.namespaces after `ns, ok := reg.namespaces[srv.Namespace]; if !ok { ... }'
withNamespace(name) ==
  IF name \in DOMAIN reg.namespaces
  THEN reg.namespaces
  ELSE [n \in DOMAIN reg.namespaces \cup {name} |->
          IF n = name THEN << >> ELSE reg.namespaces[n]]

\* m[key] = value on a map held as a function
put(map, key, value) == [k \in DOMAIN map \cup {key} |-> IF k = key THEN value ELSE map[k]]

\* delete(m, key)
remove(map, key) == [k \in DOMAIN map \ {key} |-> map[k]]

\* registry.Register, from Lock to Unlock
register(srv) ==
  /\ Ready4
  /\ LET domain == getDomain(srv)
         indexed == [srv EXCEPT !.Domain = domain]
         namespaces == withNamespace(srv.Namespace)
     IN  IF domainExists(domain)
         THEN /\ regErr' = ErrServiceDomainAlreadyUsed
              /\ UNCHANGED <<reg, streams>>
         ELSE IF srv.Name \in DOMAIN namespaces[srv.Namespace]
         THEN /\ regErr' = ErrServiceAlreadyRegistered
              /\ reg' = [reg EXCEPT !.namespaces = namespaces]
              /\ UNCHANGED streams
         ELSE /\ Cardinality(DOMAIN reg.byDomain) < MaxServices
              /\ regErr' = ErrNil
              /\ reg' = [reg EXCEPT
                           !.namespaces = put(namespaces, srv.Namespace,
                                              put(namespaces[srv.Namespace], srv.Name, indexed)),
                           !.byDomain = put(@, domain, indexed)]
              /\ streams' = regNotify(RegistryEventRegistered, indexed)
  /\ UNCHANGED crashed

\* a call of Register by some client of the registry
Register(srv) ==
  /\ register(srv)
  /\ UNCHANGED notReg

\* an Unregister that takes the service of that name from whatever namespace has one
holderAny(namespace, name) ==
  {n \in DOMAIN reg.namespaces : name \in DOMAIN reg.namespaces[n]}

\* `ns, ok := reg.namespaces[namespace]; srv, ok := ns.services[name]': the namespace
\* holding the service to delete, if there is one
holder(namespace, name) ==
  {n \in DOMAIN reg.namespaces : n = namespace /\ name \in DOMAIN reg.namespaces[n]}

\* registry.Unregister, from Lock to Unlock
unregister(namespace, name) ==
  /\ Ready4
  /\ IF holder(namespace, name) # {}
     THEN LET ns == CHOOSE n \in holder(namespace, name) : TRUE
              srv == reg.namespaces[ns][name]
          IN  /\ reg' = [reg EXCEPT
                           !.namespaces[ns] = remove(@, name),
                           !.byDomain = remove(@, getDomain(srv))]
              /\ streams' = regNotify(RegistryEventUnregistered, srv)
     ELSE UNCHANGED <<reg, streams>>
  /\ regErr' = ErrNil
  /\ UNCHANGED crashed

\* a call of Unregister by some client of the registry
Unregister(namespace, name) ==
  /\ unregister(namespace, name)
  /\ UNCHANGED notReg

\* registry.replay: range over reg.byDomain in map order, stop at the first full buffer
regReplay(ch, order) ==
  [ch EXCEPT !.buf =
     [k \in 1..Min(ch.cap, Len(order)) |->
        RegistryEventMessage(RegistryEventRegistered, reg.byDomain[order[k]])]]

\* registry.Subscribe: `reg.listeners[ch] = ch' is an assignment to an entry of a nil
\* map when the registry comes from NewRegistry; the panic is recovered nowhere
RegSubscribe(buffer, withReplay) ==
  /\ Ready4
  /\ IF reg.listeners = Nil
     THEN /\ crashed' = TRUE
          /\ UNCHANGED <<reg, streams>>
     ELSE /\ \E order \in Orders(DOMAIN reg.byDomain) :
               LET ch == [cap |-> buffer, buf |-> << >>, closed |-> FALSE]
               IN  streams' = Append(streams, IF withReplay THEN regReplay(ch, order) ELSE ch)
          /\ reg' = [reg EXCEPT !.listeners = @ \cup {Len(streams) + 1}]
          /\ UNCHANGED crashed
  /\ UNCHANGED regErr
  /\ UNCHANGED notReg

\* registry.Unsubscribe: a lookup in, and a delete from, a nil map do nothing
RegUnsubscribe(c) ==
  /\ Ready4
  /\ IF c \in listening
     THEN /\ streams' = [streams EXCEPT ![c].closed = TRUE]
          /\ reg' = [reg EXCEPT !.listeners = @ \ {c}]
     ELSE UNCHANGED <<reg, streams>>
  /\ UNCHANGED <<regErr, crashed>>
  /\ UNCHANGED notReg

RegNext ==
  \/ \E rootDomain \in RootDomains : NewRegistry(rootDomain)
  \/ \E srv \in Services : Register(srv)
  \/ \E srv \in Services : Unregister(srv.Namespace, srv.Name)
  \/ \E buffer \in 0..MaxBuf, withReplay \in BOOLEAN : RegSubscribe(buffer, withReplay)
  \/ \E c \in 0..MaxSubs : RegUnsubscribe(c)

RegSpec == Init /\ [][RegNext]_regVars

\* ================================================================ part 5
\* The embedded Router: Set builds a fresh index and stores it in the atomic value
\* rt.routes; ServeHTTP loads the value once and looks the request's domain up in it.

\* domainResolver.FQDN
FQDN(domain) == IF RouterRoot # << >> THEN domain \o RouterRoot ELSE domain

\* `for _, rec := range records { index[rt.resolver.FQDN(rec.Domain)] = rec }'
RECURSIVE Index(_)
Index(records) ==
  IF records = << >> THEN << >>
  ELSE LET rec == records[Len(records)]
           head == Index(SubSeq(records, 1, Len(records) - 1))
       IN  [d \in DOMAIN head \cup {FQDN(rec.Domain)} |->
              IF d = FQDN(rec.Domain) THEN rec ELSE head[d]]

\* a Store that adds the new index to the table in place
storeMerged(index) ==
  Table([d \in DOMAIN routes.index \cup DOMAIN index |->
           IF d \in DOMAIN index THEN index[d] ELSE routes.index[d]])

\* rt.routes.Store(index): the new value of rt.routes
store(index) == Table(index)

\* Router.Set up to the Store: the index is built in a local variable
SetBuild(s, records) ==
  /\ setter[s].pc = "idle"
  /\ setter' = [setter EXCEPT ![s] = [pc |-> "store", index |-> Index(records)]]
  /\ UNCHANGED <<routes, request>>
  /\ UNCHANGED notRouter

\* rt.routes.Store(index); return nil.  Every request in progress has one more table
\* that was current during it.
SetStore(s) ==
  /\ setter[s].pc = "store"
  /\ routes' = store(setter[s].index)
  /\ setter' = [setter EXCEPT ![s] = [pc |-> "idle", index |-> << >>]]
  /\ request' = [q \in DOMAIN request |->
                   IF request[q].pc = "idle" THEN request[q]
                   ELSE [request[q] EXCEPT !.current = @ \cup {routes'}]]
  /\ UNCHANGED notRouter

NoRequest == [pc |-> "idle", domain |-> << >>, loaded |-> NoRoutes, record |-> NotFound,
              page |-> NoRoutes, current |-> {}]

\* a request for `domain' (resolver.Domain(request)) enters ServeHTTP
Request(q, domain) ==
  /\ request[q].pc = "idle"
  /\ request' = [request EXCEPT ![q] = [NoRequest EXCEPT !.pc = "load", !.domain = domain,
                                                         !.current = {routes}]]
  /\ UNCHANGED <<routes, setter>>
  /\ UNCHANGED notRouter

\* routes, ok := rt.routes.Load().(map[string]ingress.Record)
Load(q) ==
  /\ request[q].pc = "load"
  /\ request' = [request EXCEPT ![q].loaded = routes, ![q].pc = "lookup"]
  /\ UNCHANGED <<routes, setter>>
  /\ UNCHANGED notRouter

\* `record, ok := routes[domain]' on the loaded table; no table and no record are
\* answered by notFound
lookup(table, domain) ==
  IF table.ok /\ domain \in DOMAIN table.index THEN Found(table.index[domain]) ELSE NotFound

\* the rest of ServeHTTP up to serveRoute or notFound
Lookup(q) ==
  /\ request[q].pc = "lookup"
  /\ LET record == lookup(request[q].loaded, request[q].domain)
     IN  request' = [request EXCEPT ![q].record = record,
                                    ![q].pc = IF record.ok THEN "served" ELSE "notFound"]
  /\ UNCHANGED <<routes, setter>>
  /\ UNCHANGED notRouter

\* notFound: http.NotFound, or showIndex, which loads rt.routes again for its listing
ShowIndex(q, disableIndex) ==
  /\ request[q].pc = "notFound"
  /\ request' = [request EXCEPT ![q].page = IF disableIndex THEN NoRoutes ELSE routes,
                                ![q].pc = "served"]
  /\ UNCHANGED <<routes, setter>>
  /\ UNCHANGED notRouter

\* the request is answered
Served(q) ==
  /\ request[q].pc = "served"
  /\ request' = [request EXCEPT ![q] = NoRequest]
  /\ UNCHANGED <<routes, setter>>
  /\ UNCHANGED notRouter

RouterNext ==
  \/ \E s \in 1..MaxSetters, records \in RecordLists : SetBuild(s, records)
  \/ \E s \in 1..MaxSetters : SetStore(s)
  \/ \E q \in 1..MaxRequests, domain \in RequestDomains : Request(q, domain)
  \/ \E q \in 1..MaxRequests : Load(q)
  \/ \E q \in 1..MaxRequests : Lookup(q)
  \/ \E q \in 1..MaxRequests, disableIndex \in BOOLEAN : ShowIndex(q, disableIndex)
  \/ \E q \in 1..MaxRequests : Served(q)

RouterSpec == Init /\ [][RouterNext]_routerVars

\* ================================================================ part 6
\* The docker packaging daemon (dckr.dockerDaemon) run by the goroutines of the
\* Launcher: daemon i is the Descriptor.Daemon of goroutine i.  Its Create, Run and
\* Remove are the calls the Launcher makes; what they do to the registry lies between
\* the call and the return.
dockerRest == <<regErr, streams, crashed>>

Digits == <<"0", "1", "2", "3", "4", "5", "6", "7", "8", "9">>

\* strconv.Itoa on a non-negative number
RECURSIVE Itoa(_)
Itoa(n) == IF n < 10 THEN <<Digits[n + 1]>> ELSE Itoa(n \div 10) \o <<Digits[(n % 10) + 1]>>

\* portsPriority
portsPriority == [p \in {80, 8080} |-> IF p = 80 THEN 1 ELSE 2]

\* the loop of findRootPort over ports[1..k]: [bestPriority, bestService], 0-based
RECURSIVE bestPort(_, _)
bestPort(ports, k) ==
  IF k = 0 THEN [bestPriority |-> 999, bestService |-> 0]
  ELSE LET best == bestPort(ports, k - 1)
       IN  IF ports[k] \in DOMAIN portsPriority /\ portsPriority[ports[k]] < best.bestPriority
           THEN [bestPriority |-> portsPriority[ports[k]], bestService |-> k - 1]
           ELSE best

\* findRootPort
findRootPort(ports) == IF Len(ports) = 0 THEN 0 - 1 ELSE bestPort(ports, Len(ports)).bestService

\* dockerDaemon.exposedServices
dockerServices(namespace, ports, address) ==
  LET byPort == [k \in 1..Len(ports) |->
                   [Namespace |-> namespace, Name |-> Itoa(ports[k]), Domain |-> << >>,
                    Address |-> <<address, ports[k]>>]]
      idx == findRootPort(ports)
  IN  IF idx # 0 - 1
      THEN Append(byPort, [Namespace |-> namespace, Name |-> << >>, Domain |-> << >>,
                           Address |-> byPort[idx + 1].Address])
      ELSE byPort

\* the daemon has not acted in the current attempt of its goroutine
Fresh(i) == dd[i].attempt # inst[i].attempts

\* where daemon i is inside the call the Launcher has made
step(i) == IF Fresh(i) THEN "called" ELSE dd[i].step

\* dockerDaemon.Create up to `dd.services = dd.exposedServices(environment.Name())'
DockerCreate(i, ports) ==
  /\ i \in DOMAIN inst /\ inst[i].pc = "Create" /\ step(i) = "called"
  /\ dd' = [dd EXCEPT ![i] = [attempt |-> inst[i].attempts, step |-> "created", next |-> 0,
                              services |-> dockerServices(NameChars[inst[i].name], ports, i)]]
  /\ UNCHANGED <<reg, dockerRest>>
  /\ UNCHANGED notDocker

\* dockerDaemon.Run fails before its Register loop: ContainerStart, ContainerInspect
\* or WaitToBeHealthy returns an error
DockerStartFails(i) ==
  /\ i \in DOMAIN inst /\ inst[i].pc = "Run" /\ step(i) = "created" /\ dd[i].next = 0
  /\ dd' = [dd EXCEPT ![i].step = "runFailed"]
  /\ UNCHANGED <<reg, dockerRest>>
  /\ UNCHANGED notDocker

\* one round of `for _, srv := range dd.services { Register(srv) }': an error ends Run
DockerRegister(i) ==
  /\ i \in DOMAIN inst /\ inst[i].pc = "Run" /\ step(i) = "created"
  /\ dd[i].next < Len(dd[i].services)
  /\ register(dd[i].services[dd[i].next + 1])
  /\ dd' = IF regErr' = ErrNil
           THEN [dd EXCEPT ![i].next = @ + 1]
           ELSE [dd EXCEPT ![i].step = "runFailed"]
  /\ UNCHANGED notDocker

\* every service of daemon i is registered and Run is at environment.Ready() or at
\* `<-ctx.Done()'
Registering(i) ==
  /\ i \in DOMAIN inst /\ inst[i].pc = "Run" /\ step(i) = "created"
  /\ dd[i].next = Len(dd[i].services)

\* an Unregister loop that leaves the registry as it is
unregisterNextSkips(i, from, last) ==
  /\ dd' = [dd EXCEPT ![i].step = last]
  /\ UNCHANGED <<reg, dockerRest>>

\* one round of the Unregister loop daemon i is in, counted by `next'
unregisterNext(i, from, last) ==
  LET k == IF step(i) = from THEN dd[i].next ELSE 0
  IN  IF k < Len(dd[i].services)
      THEN /\ unregister(dd[i].services[k + 1].Namespace, dd[i].services[k + 1].Name)
           /\ dd' = [dd EXCEPT ![i].step = from, ![i].next = k + 1]
      ELSE /\ dd' = [dd EXCEPT ![i].step = last]
           /\ UNCHANGED <<reg, dockerRest>>

\* Run after `<-ctx.Done()': the Unregister loop, then return nil
DockerStop(i) ==
  /\ i \in DOMAIN inst /\ inst[i].pc = "Run"
  /\ IF step(i) = "created" THEN Registering(i) /\ inst[i].ready = 1 /\ Cancelled(i)
     ELSE step(i) = "stopping"
  /\ unregisterNext(i, "stopping", "returned")
  /\ UNCHANGED notDocker

\* dockerDaemon.Remove: the Unregister loop, then the container is stopped and removed.
\* dd.services is what the last Create that got that far has left.
DockerRemove(i) ==
  /\ i \in DOMAIN inst /\ inst[i].pc = "Remove" /\ step(i) # "removed"
  /\ unregisterNext(i, "removing", "removed")
  /\ UNCHANGED notDocker

\* Create returns: nil once dd.services is set, an error from any step before that
DockerCreateReturns(i, e) ==
  /\ i \in DOMAIN inst
  /\ step(i) = (IF e = ErrNil THEN "created" ELSE "called")
  /\ CreateReturns(i, e)

\* environment.Ready() after the Register loop
DockerReady(i) == Registering(i) /\ Ready(i)

\* Run returns the error of ContainerStart, ContainerInspect, WaitToBeHealthy or Register
DockerRunFails(i) ==
  /\ i \in DOMAIN inst /\ step(i) = "runFailed"
  /\ RunFails(i)

\* Run returns nil
DockerRunReturns(i) ==
  /\ i \in DOMAIN inst /\ step(i) = "returned"
  /\ RunReturns(i)

\* Remove returns nil, or the errors of ContainerStop, Leave and cleanupContainers
DockerRemoveReturns(i, e) ==
  /\ i \in DOMAIN inst /\ step(i) = "removed"
  /\ RemoveReturns(i, e)

DockerNext ==
  \/ \E rootDomain \in RootDomains : NewRegistry(rootDomain)
  \/ RunEnter
  \/ CancelRun
  \/ RunBreak
  \/ RunReturn
  \/ \E name \in Names : Launch(name)
  \/ \E name \in Names : Remove(name)
  \/ \E i \in 1..MaxInst : Finished(i)
  \/ \E i \in 1..MaxInst : FirstAttempt(i)
  \/ \E i \in 1..MaxInst, ports \in PortLists : DockerCreate(i, ports)
  \/ \E i \in 1..MaxInst, e \in DaemonErrors : DockerCreateReturns(i, e)
  \/ \E i \in 1..MaxInst : DockerStartFails(i)
  \/ \E i \in 1..MaxInst : DockerRegister(i)
  \/ \E i \in 1..MaxInst : DockerReady(i)
  \/ \E i \in 1..MaxInst : DockerStop(i)
  \/ \E i \in 1..MaxInst : DockerRunFails(i)
  \/ \E i \in 1..MaxInst : StoppedAfterRunFailed(i)
  \/ \E i \in 1..MaxInst : DockerRunReturns(i)
  \/ \E i \in 1..MaxInst : DockerRemove(i)
  \/ \E i \in 1..MaxInst, e \in {ErrNil, ErrOther} : DockerRemoveReturns(i, e)
  \/ \E i \in 1..MaxInst : RetryTimer(i)
  \/ \E i \in 1..MaxInst : RetryCtxDone(i)

DockerSpec == Init /\ [][DockerNext]_<<vars, regVars, dockerVars>>

\* ================================================================ part 7
\* One request through the embedded Router.  ServeHTTP looks the request's domain up;
\* a miss is answered by notFound, a hit by serveRoute, which wraps the response writer
\* and calls the handlers of the chain in order.

\* ---- strings under case folding
Lower ==
  [c \in {"B", "E", "G", "O", "P", "S", "T"} |->
     CASE c = "B" -> "b" [] c = "E" -> "e" [] c = "G" -> "g" [] c = "O" -> "o"
       [] c = "P" -> "p" [] c = "S" -> "s" [] c = "T" -> "t"]

Fold(s) == [k \in DOMAIN s |-> IF s[k] \in DOMAIN Lower THEN Lower[s[k]] ELSE s[k]]

\* strings.EqualFold
EqualFold(s, t) == Fold(s) = Fold(t)

\* containsFold
containsFold(list, value) == \E k \in DOMAIN list : EqualFold(list[k], value)

\* ---- tokens
\* What jwt.ParseWithClaims can find in a token: three decodable segments or not, the
\* signing method of its header, the key it was signed with, registered time claims
\* (exp, iat, nbf of the embedded jwt.StandardClaims) that are valid now or not, and
\* the claims aud, sub and methods.  `empty' is the empty string.
SharedKey == "qwerty"

Token(segments, alg, key, timely, aud, sub, methods) ==
  [empty |-> FALSE, segments |-> segments, alg |-> alg, key |-> key, timely |-> timely,
   aud |-> aud, sub |-> sub, methods |-> methods]

NoToken == [Token(FALSE, "", "", FALSE, << >>, << >>, << >>) EXCEPT !.empty = TRUE]

Audiences == {<< >>, <<"c">>}
Subjects == {<< >>, <<"g">>, <<"G">>, <<"h">>}
MethodLists == {<< >>, <<POST>>, <<Fold(GET)>>}

Signed(aud, sub, methods) == Token(TRUE, "HS256", SharedKey, TRUE, aud, sub, methods)

Tokens ==
  {Signed(aud, sub, methods) : aud \in Audiences, sub \in Subjects, methods \in MethodLists}
    \cup { [Signed(<<"c">>, <<"g">>, << >>) EXCEPT !.segments = FALSE],
           [Signed(<<"c">>, <<"g">>, << >>) EXCEPT !.alg = "RS256"],
           [Signed(<<"c">>, <<"g">>, << >>) EXCEPT !.key = "other"],
           [Signed(<<"c">>, <<"g">>, << >>) EXCEPT !.timely = FALSE] }

\* the Authorization header as the words between its blanks (none: no header), and
\* the `token' parameter of the query
Bearer == <<"B", "e", "a", "r", "e", "r">>
Basic == <<"B", "a", "s", "i", "c">>

Credentials ==
  {[authorization |-> << >>, query |-> q] : q \in Tokens \cup {NoToken}}
    \cup {[authorization |-> <<kind, t>>, query |-> NoToken] :
            kind \in {Bearer, Fold(Bearer), Basic}, t \in Tokens}
    \cup {[authorization |-> <<t>>, query |-> q] : t \in {Signed(<<"c">>, << >>, << >>)},
                                                  q \in {NoToken, Signed(<<"c">>, << >>, << >>)}}

\* getToken: the query parameter when there is no Authorization header, else the
\* second of the header's two parts when the first is `bearer' in any case
getToken(req) ==
  IF req.authorization = << >> THEN req.query
  ELSE IF Len(req.authorization) # 2 THEN NoToken
  ELSE IF ~EqualFold(req.authorization[1], Bearer) THEN NoToken
  ELSE req.authorization[2]

\* jwt.ParseWithClaims(token, &JWTClaims{}, keyFunc): the key function refuses any
\* signing method that is not HMAC and hands out the shared key; the parser verifies
\* the segments, the signature and the claims' Valid()
ParseWithClaims(token, sharedKey) ==
  IF ~token.segments THEN "malformed"
  ELSE IF token.alg \notin {"HS256", "HS384", "HS512"} THEN "unverifiable"
  ELSE IF token.key # sharedKey THEN "signature invalid"
  ELSE IF ~token.timely THEN "claims invalid"
  ELSE ErrNil

StatusOK == 200
StatusNoContent == 204
StatusUnauthorized == 401
StatusForbidden == 403
StatusNotFound == 404
StatusInternalServerError == 500
StatusBadGateway == 502

\* a JWT handler that lets every subject into every group
JWTAnySubject(sharedKey, req, group) ==
  LET token == getToken(req) IN
  IF token.empty THEN [status |-> StatusUnauthorized, user |-> << >>]
  ELSE IF ParseWithClaims(token, sharedKey) # ErrNil THEN [status |-> StatusUnauthorized, user |-> << >>]
  ELSE IF token.aud = << >> THEN [status |-> StatusUnauthorized, user |-> << >>]
  ELSE IF token.methods # << >> /\ ~containsFold(token.methods, req.method)
       THEN [status |-> StatusForbidden, user |-> << >>]
  ELSE [status |-> 0, user |-> token.aud]

\* the decision of the JWT handler: the status it replies with before it returns
\* ErrAbort, or 0 and the value it sets header X-User to before it returns nil
JWT(sharedKey, req, group) ==
  LET token == getToken(req) IN
  IF token.empty THEN [status |-> StatusUnauthorized, user |-> << >>]
  ELSE IF ParseWithClaims(token, sharedKey) # ErrNil THEN [status |-> StatusUnauthorized, user |-> << >>]
  ELSE IF token.aud = << >> THEN [status |-> StatusUnauthorized, user |-> << >>]
  ELSE IF token.sub # << >> /\ ~EqualFold(group, token.sub)
       THEN [status |-> StatusForbidden, user |-> << >>]
  ELSE IF token.methods # << >> /\ ~containsFold(token.methods, req.method)
       THEN [status |-> StatusForbidden, user |-> << >>]
  ELSE [status |-> 0, user |-> token.aud]

\* ---- the Router and its response writer
\* the error a handler returns to end the chain without a failure
ErrAbort == "abort"

Chains == {<<"JWT", "Proxy">>, <<"JWT", "Handler">>, <<"Handler", "Proxy">>, <<"Proxy">>}

\* ingress.Record of part 7: the group is compared under case folding
HttpRecord(addresses) == [Domain |-> <<"a">>, Addresses |-> addresses, Group |-> <<"g">>]

HttpTables ==
  {NoRoutes} \cup {store(Index(<<HttpRecord(addresses)>>)) :
                     addresses \in {<< >>, <<"10.0.0.1:80">>, <<"10.0.0.1:80", "10.0.0.2:80">>}}

\* values of header X-Correlation-ID; a header that is not there reads as ""
Correlations == {"", "c"}

\* rand.Int() is any non-negative number
MaxRand == 2

\* hijackedWrapper{writeWrapper: *wrapped, ...} holds a copy of the writeWrapper: the
\* handlers of the chain write through the copy and serveRoute's last test reads the
\* original.  Without a Hijacker both are the one object.
through(h, writer) == IF writer = "newWriter" /\ h.hijacker THEN "copy" ELSE "wrapped"

\* writeWrapper.WriteHeader: marks the status written, sets the protected header and
\* calls the WriteHeader of the server's writer, which sends status and headers once
\* and does nothing on a hijacked connection
WriteHeader(h, writer, statusCode) ==
  LET w == [h EXCEPT !.statusWritten[through(h, writer)] = TRUE, !.header = h.request.corr] IN
  IF w.hijacked \/ w.status # 0 THEN w
  ELSE [w EXCEPT !.status = statusCode, !.sent = w.header]

\* a loop that goes on to the next handler whatever the last one returned
nextAlways(h, err) ==
  [h EXCEPT !.err = err,
            !.k = h.k + 1,
            !.pc = IF h.k < Len(h.chain) THEN "chain" ELSE "finish"]

\* `for _, handler := range rt.chain': after handler k returned err the loop breaks
\* on an error and goes on to the next handler otherwise
next(h, err) ==
  [h EXCEPT !.err = err,
            !.k = h.k + 1,
            !.pc = IF err = ErrNil /\ h.k < Len(h.chain) THEN "chain" ELSE "finish"]

\* a notFound whose index page goes out with the status of a first Write
notFoundWritten(h) ==
  [h EXCEPT !.pc = "done",
            !.status = IF h.disableIndex THEN StatusNotFound ELSE StatusOK,
            !.page = IF h.disableIndex THEN "plain" ELSE "index"]

\* Router.notFound on the server's writer: http.NotFound when the index is disabled,
\* else showIndex, which sends 404 ahead of the page rendered from the embedded
\* template
notFound(h) ==
  [h EXCEPT !.pc = "done",
            !.status = StatusNotFound,
            !.page = IF h.disableIndex THEN "plain" ELSE "index"]

\* a request arrives at a Router with the given table, chain and index setting
HttpRequest(method, credentials, corr, table, domain, chain, disableIndex, hijacker) ==
  /\ http.pc = "idle"
  /\ http' = [NoHttp EXCEPT !.pc = "ServeHTTP",
                            !.request = [method |-> method,
                                         authorization |-> credentials.authorization,
                                         query |-> credentials.query, corr |-> corr],
                            !.table = table, !.domain = domain, !.chain = chain,
                            !.disableIndex = disableIndex, !.hijacker = hijacker]
  /\ UNCHANGED notHttp

\* Router.ServeHTTP: notFound (http.NotFound, or showIndex with the embedded template)
\* on a miss, else serveRoute up to its loop
HttpServeHTTP ==
  /\ http.pc = "ServeHTTP"
  /\ LET record == lookup(http.table, http.domain) IN
     IF ~record.ok
     THEN http' = notFound(http)
     ELSE http' = [http EXCEPT !.pc = IF http.chain = << >> THEN "finish" ELSE "chain",
                               !.routed = TRUE, !.record = record.record]
  /\ UNCHANGED notHttp

\* the JWT handler is the next of the chain
HttpJWT ==
  /\ http.pc = "chain"
  /\ http.chain[http.k] = "JWT"
  /\ LET decision == JWT(SharedKey, http.request, http.record.Group)
         entered == [http EXCEPT !.invoked = Append(@, "JWT"), !.jwt = decision.status] IN
     IF decision.status # 0
     THEN http' = next(WriteHeader(entered, "newWriter", decision.status), ErrAbort)
     ELSE http' = next([entered EXCEPT !.user = decision.user], ErrNil)
  /\ UNCHANGED notHttp

\* what the upstream answers: a response with its own X-Correlation-ID, nothing
\* (unreachable), or a protocol switch
Replies ==
  {[kind |-> "response", corr |-> c] : c \in {"", "x"}}
    \cup {[kind |-> "unreachable", corr |-> ""]}
    \cup {[kind |-> "upgrade", corr |-> c] : c \in {"", "x"}}

\* httputil.ReverseProxy.ServeHTTP: copies the upstream's headers and status to the
\* writer; its error handler replies 502; a protocol switch hijacks the connection
\* and writes the upstream's response on it
ReverseProxy(h, address, reply) ==
  LET sent == [h EXCEPT !.upstream = address] IN
  CASE reply.kind = "response" ->
         WriteHeader([sent EXCEPT !.header = reply.corr], "newWriter", StatusOK)
    [] reply.kind = "unreachable" -> WriteHeader(sent, "newWriter", StatusBadGateway)
    [] reply.kind = "upgrade" ->
         IF h.hijacker /\ h.status = 0
         THEN [sent EXCEPT !.hijacked = TRUE, !.status = 101, !.header = reply.corr,
                           !.sent = reply.corr]
         ELSE WriteHeader(sent, "newWriter", StatusBadGateway)

\* Proxy: `record.Record.Addresses[rand.Int()%len(record.Record.Addresses)]' divides
\* by zero on a record without addresses and the handler panics; resolver.Resolve and
\* url.Parse may fail (endpoint); else the request goes to the upstream
Proxy(h, rnd, endpoint, reply) ==
  LET addresses == h.record.Addresses
      entered == [h EXCEPT !.invoked = Append(@, "Proxy")] IN
  IF addresses = << >> THEN [entered EXCEPT !.pc = "panicked"]
  ELSE LET address == addresses[(rnd % Len(addresses)) + 1] IN
       IF endpoint # ErrNil THEN next([entered EXCEPT !.address = address], endpoint)
       ELSE next(ReverseProxy([entered EXCEPT !.address = address], address, reply), ErrAbort)

\* the Proxy handler is the next of the chain
HttpProxy(rnd, endpoint, reply) ==
  /\ http.pc = "chain"
  /\ http.chain[http.k] = "Proxy"
  /\ http' = Proxy(http, rnd, endpoint, reply)
  /\ UNCHANGED notHttp

\* any other RouteHandler is the next of the chain: it may set X-Correlation-ID on the
\* response, write a status, and return nil, ErrAbort or another error
HttpHandler(corr, statusCode, err) ==
  /\ http.pc = "chain"
  /\ http.chain[http.k] = "Handler"
  /\ LET entered == [http EXCEPT !.invoked = Append(@, "Handler"), !.header = corr] IN
     http' = next(IF statusCode = 0 THEN entered ELSE WriteHeader(entered, "newWriter", statusCode),
                  err)
  /\ UNCHANGED notHttp

\* serveRoute after the handler that ended the loop: 500 for an error that is not
\* ErrAbort, then 204 when no status went through wrapped
HttpFinish ==
  /\ http.pc = "finish"
  /\ LET failed == IF http.err \notin {ErrNil, ErrAbort}
                   THEN WriteHeader(http, "newWriter", StatusInternalServerError) ELSE http
         ended == IF ~failed.statusWritten["wrapped"]
                  THEN WriteHeader(failed, "wrapped", StatusNoContent) ELSE failed
     IN  http' = [ended EXCEPT !.pc = "done"]
  /\ UNCHANGED notHttp

\* the request is over: answered, or its goroutine panicked and the server closed the
\* connection
HttpDone ==
  /\ http.pc \in {"done", "panicked"}
  /\ http' = NoHttp
  /\ UNCHANGED notHttp

\* the requests the Router is given when it is idle
HttpArrives ==
  /\ http.pc = "idle"
  /\ \E method \in {GET, POST}, credentials \in Credentials, corr \in Correlations,
        table \in HttpTables, domain \in {<<"a", "r">>, <<"b", "r">>}, chain \in Chains,
        disableIndex \in BOOLEAN, hijacker \in BOOLEAN :
       HttpRequest(method, credentials, corr, table, domain, chain, disableIndex, hijacker)

HttpNext ==
  \/ HttpArrives
  \/ HttpServeHTTP
  \/ HttpJWT
  \/ \E rnd \in 0..MaxRand, endpoint \in {ErrNil, ErrOther}, reply \in Replies :
       HttpProxy(rnd, endpoint, reply)
  \/ \E corr \in {"", "x"}, statusCode \in {0, StatusOK}, err \in {ErrNil, ErrAbort, ErrOther} :
       HttpHandler(corr, statusCode, err)
  \/ HttpFinish
  \/ HttpDone

HttpSpec == Init /\ [][HttpNext]_httpVars

\* ================================================================ part 8
\* The DNS bridge daemon (dns.Daemonize): Run subscribes to the registry with replay,
\* reports Ready and registers the domain of every Registered event with the provider.
\* The registry is the core.Registry of the environment.

\* `const bufferSize = 1024', scaled down
bufferSize == 2

\* the services whose events the registry reports
DnsServices == {s \in Services : s.Namespace = <<"a">> /\ s.Name = <<"a">> /\ s.Domain # << >>}

DnsEvents ==
  {RegistryEventMessage(e, s) : e \in {RegistryEventRegistered, RegistryEventUnregistered},
                                s \in DnsServices}

\* the Launcher calls Run of the daemon (Create of a FuncDaemon does nothing)
DnsRun ==
  /\ dnsd.pc = "idle"
  /\ dnsd' = [NoDns EXCEPT !.pc = "subscribe", !.ctxDone = dnsd.ctxDone]
  /\ UNCHANGED notDns

\* Registry().Subscribe(bufferSize, true): a registry whose listeners map was never
\* made (NewRegistry) panics on the assignment; else the stream is listed and holds
\* the replay, a Registered event per service until the buffer is full.  Then
\* environment.Ready().
DnsSubscribe(made, replayed) ==
  /\ dnsd.pc = "subscribe"
  /\ Len(replayed) <= bufferSize
  /\ \A k \in DOMAIN replayed : replayed[k].Event = RegistryEventRegistered
  /\ dnsd' = IF made
             THEN [dnsd EXCEPT !.pc = "loop", !.buf = replayed, !.listed = TRUE]
             ELSE [dnsd EXCEPT !.pc = "panicked"]
  /\ UNCHANGED notDns

\* registry.notify while the stream is listed: a non-blocking send
DnsNotify(event) ==
  /\ dnsd.listed /\ dnsd.pc # "panicked"
  /\ dnsd' = [dnsd EXCEPT !.buf = send(@, bufferSize, event)]
  /\ UNCHANGED notDns

\* `for event := range ch' is over: the stream is drained and closed
rangeEnds(d) == d.buf = << >> /\ d.closed

\* one round of `for event := range ch': the loop ends, and the deferred Unsubscribe
\* closes the stream and Run returns nil; or the next event is received, and skipped
\* unless it is a Registered event
DnsRange ==
  /\ dnsd.pc = "loop"
  /\ IF rangeEnds(dnsd)
     THEN dnsd' = [dnsd EXCEPT !.pc = "returned", !.closed = TRUE, !.listed = FALSE]
     ELSE /\ dnsd.buf # << >>
          /\ LET event == Head(dnsd.buf) IN
             dnsd' = [dnsd EXCEPT !.buf = Tail(@),
                                  !.pc = IF event.Event # RegistryEventRegistered THEN "loop"
                                         ELSE "register",
                                  !.domain = IF event.Event # RegistryEventRegistered THEN @
                                             ELSE event.Service.Domain]
  /\ UNCHANGED notDns

\* provider.Register(ctx, []string{event.Service.Domain}): an error is logged
DnsRegister(ok) ==
  /\ dnsd.pc = "register"
  /\ dnsd' = [dnsd EXCEPT !.pc = "loop", !.domain = << >>,
                          !.registered = IF ok THEN @ \cup {dnsd.domain} ELSE @]
  /\ UNCHANGED notDns

\* the Launcher stops the daemon: the context of Run is cancelled
DnsCancel ==
  /\ dnsd.pc \notin {"idle", "panicked"} /\ ~dnsd.ctxDone
  /\ dnsd' = [dnsd EXCEPT !.ctxDone = TRUE]
  /\ UNCHANGED notDns

DnsReplays == {<< >>} \cup {<<e>> : e \in DnsEvents} \cup {<<e, f>> : e \in DnsEvents, f \in DnsEvents}

DnsNext ==
  \/ DnsRun
  \/ \E made \in BOOLEAN, replayed \in DnsReplays : DnsSubscribe(made, replayed)
  \/ \E event \in DnsEvents : DnsNotify(event)
  \/ DnsRange
  \/ \E ok \in BOOLEAN : DnsRegister(ok)
  \/ DnsCancel

DnsSpec == Init /\ [][DnsNext]_dnsVars

\* ================================================================ part 9
\* The volume storage.  Restore and Backup are sequences of calls that can each
\* fail; every call is one step, so that a Backup of the schedule and a Restore
\* of a packaging run can be seen to overlap if the code lets them.
ErrBackupNotExists == "backup not exists"

\* what one call inside an operation returns
Outcomes == {ErrNil, ErrOther}

\* a return statement of Restore or Backup: the deferred os.RemoveAll calls run
returnWith(op, err) ==
  [op EXCEPT !.step = "returned", !.err = err, !.files = op.files \ op.deferred]

\* ioutil.TempFile and its error check
TempFile(op, file, err, message, then) ==
  IF err # ErrNil THEN returnWith(op, message)
  ELSE [op EXCEPT !.files = @ \cup {file}, !.step = then]

\* file.Close(), its error check, and the defer os.RemoveAll that follows it
Close(op, file, err, message, then) ==
  IF err # ErrNil THEN returnWith(op, message)
  ELSE [op EXCEPT !.deferred = @ \cup {file}, !.step = then]

\* VolumeStorage.ensureVolumes for the one volume: inspect it, create it if missing
ensureVolumes(volume, err) ==
  IF err # ErrNil THEN [volume |-> volume, err |-> err]
  ELSE [volume |-> [volume EXCEPT !.exists = TRUE], err |-> ErrNil]

\* the Restore of a backend: ErrBackupNotExists when it keeps nothing under the name
providerRestore(artefact, err) ==
  IF err # ErrNil THEN err
  ELSE IF ~artefact.exists THEN ErrBackupNotExists
  ELSE ErrNil

\* errors.Is(err, backup.ErrBackupNotExists)
absentNever(err) == FALSE

absent(err) == err = ErrBackupNotExists

\* the extraction of the helper container: tar -zxf with --overwrite into the volume
copyArchiveToVolumes(volume, content) == [volume EXCEPT !.content = @ \cup content]

\* the first statement of Restore
RestoreEntry(volume) == [NoOp EXCEPT !.step = "ensureVolumes", !.entry = volume]

\* one call of VolumeStorage.Restore, from the statement op is at
Restore(op, volume, artefact, err) ==
  CASE op.step = "ensureVolumes" ->
         LET ensured == ensureVolumes(volume, err) IN
         [op |-> IF ensured.err # ErrNil THEN returnWith(op, "create volumes if needed")
                 ELSE [op EXCEPT !.step = "TempFile(encrypted)"],
          volume |-> ensured.volume]
    [] op.step = "TempFile(encrypted)" ->
         [op |-> TempFile(op, Encrypted, err, "create temp encrypted", "Close(encrypted)"),
          volume |-> volume]
    [] op.step = "Close(encrypted)" ->
         [op |-> Close(op, Encrypted, err, "close encrypted file", "provider.Restore"),
          volume |-> volume]
    [] op.step = "provider.Restore" ->
         LET answer == providerRestore(artefact, err)
             answered == [op EXCEPT !.answer = answer] IN
         [op |-> IF absent(answer) THEN returnWith(answered, ErrNil)
                 ELSE IF answer # ErrNil THEN returnWith(answered, "download archive")
                 ELSE [answered EXCEPT !.step = "TempFile(raw)"],
          volume |-> volume]
    [] op.step = "TempFile(raw)" ->
         [op |-> TempFile(op, Raw, err, "create temp archive", "Close(raw)"),
          volume |-> volume]
    [] op.step = "Close(raw)" ->
         [op |-> Close(op, Raw, err, "close raw file", "Decrypt"),
          volume |-> volume]
    [] op.step = "Decrypt" ->
         [op |-> IF err # ErrNil THEN returnWith(op, "decrypt archive")
                 ELSE [op EXCEPT !.decrypted = TRUE, !.step = "copyArchiveToVolumes"],
          volume |-> volume]
    [] op.step = "copyArchiveToVolumes" ->
         IF err # ErrNil THEN [op |-> returnWith(op, "create backup container"), volume |-> volume]
         ELSE [op |-> returnWith([op EXCEPT !.extracted = TRUE], ErrNil),
               volume |-> copyArchiveToVolumes(volume, artefact.content)]

\* the first statement of Backup
BackupEntry(volume) == [NoOp EXCEPT !.step = "TempFile(raw)", !.entry = volume]

\* one call of VolumeStorage.Backup, from the statement op is at
Backup(op, volume, artefact, err) ==
  CASE op.step = "TempFile(raw)" ->
         [op |-> TempFile(op, Raw, err, "create temp archive", "Close(raw)"),
          artefact |-> artefact]
    [] op.step = "Close(raw)" ->
         [op |-> Close(op, Raw, err, "close raw file", "copyVolumesToArchive"),
          artefact |-> artefact]
    [] op.step = "copyVolumesToArchive" ->
         [op |-> IF err # ErrNil THEN returnWith(op, "copy volumes to archive")
                 ELSE [op EXCEPT !.archive = volume.content, !.step = "TempFile(encrypted)"],
          artefact |-> artefact]
    [] op.step = "TempFile(encrypted)" ->
         [op |-> TempFile(op, Encrypted, err, "create temp encrypted", "Close(encrypted)"),
          artefact |-> artefact]
    [] op.step = "Close(encrypted)" ->
         [op |-> Close(op, Encrypted, err, "close encrypted file", "Encrypt"),
          artefact |-> artefact]
    [] op.step = "Encrypt" ->
         [op |-> IF err # ErrNil THEN returnWith(op, "encrypt archive file")
                 ELSE [op EXCEPT !.step = "provider.Backup"],
          artefact |-> artefact]
    [] op.step = "provider.Backup" ->
         IF err # ErrNil THEN [op |-> returnWith(op, "upload archive"), artefact |-> artefact]
         ELSE [op |-> returnWith([op EXCEPT !.uploaded = TRUE], ErrNil),
               artefact |-> [exists |-> TRUE, content |-> op.archive]]

\* an operation between its first statement and its return
InProgress(op) == op.step \notin {"none", "returned"}

\* the volume and the artefact the program finds when it starts
Volumes == {NoVolume, [exists |-> TRUE, content |-> {}], [exists |-> TRUE, content |-> {"g"}]}
Artefacts == {NoArtefact, [exists |-> TRUE, content |-> {"f"}]}

BackupWorld(volume, artefact) ==
  /\ bk.world = "unset"
  /\ bk' = [bk EXCEPT !.world = "set", !.volume = volume, !.artefact = artefact]
  /\ UNCHANGED notBackup

\* the context of the Timer task: the child that Spawn makes of the context of the run
timerDone(d) == d.cancelled \/ d.timerCancelled

\* <-bd.done in Task.Stop
waitedAtOnce(closed) == TRUE

waited(closed) == closed

\* Timer after the runnable of a tick returned: the error is logged, the loop goes on
afterTickEnds(err) == IF err # ErrNil THEN "finished" ELSE "select"

afterTick(err) == "select"

\* poller.poll with a change or force: Stop of the current task begins (bd.cancel())
PollStopsOld ==
  /\ bk.world = "set"
  /\ bk.polling = "idle"
  /\ bk.spawned < MaxDeploys
  /\ bk' = [bk EXCEPT !.polling = "Stop",
                      !.dep = IF bk.current = 0 THEN @
                              ELSE [@ EXCEPT ![bk.current].cancelled = TRUE]]
  /\ UNCHANGED notBackup

\* poller.poll: Stop returned; with its error poll returns, without it the next
\* packaging run is spawned and becomes the current task
PollSpawnsNew ==
  /\ bk.polling = "Stop"
  /\ IF bk.current = 0 THEN TRUE ELSE waited(bk.dep[bk.current].run = "done")
  /\ LET err == IF bk.current = 0 THEN ErrNil ELSE bk.dep[bk.current].err
         n == bk.spawned + 1 IN
     bk' = IF err # ErrNil THEN [bk EXCEPT !.polling = "idle"]
           ELSE [bk EXCEPT !.polling = "idle", !.current = n, !.spawned = n,
                           !.dep[n] = [NoDeploy EXCEPT !.run = "build"]]
  /\ UNCHANGED notBackup

\* the loop of the poller: the current task ended by itself
PackageStopped ==
  /\ bk.polling = "idle"
  /\ bk.current # 0
  /\ bk.dep[bk.current].run = "done"
  /\ bk' = [bk EXCEPT !.current = 0]
  /\ UNCHANGED notBackup

\* the packaging run up to its call of Restore: cleanup and build
RunBuilds(i, err) ==
  /\ bk.dep[i].run = "build"
  /\ bk' = IF err # ErrNil
           THEN [bk EXCEPT !.dep[i].run = "done", !.dep[i].err = "build image"]
           ELSE [bk EXCEPT !.dep[i].run = "Restore",
                           !.dep[i].restore = RestoreEntry(bk.volume)]
  /\ UNCHANGED notBackup

\* one call inside env.Backup.Restore
RestoreStep(i, err) ==
  /\ bk.dep[i].run = "Restore"
  /\ InProgress(bk.dep[i].restore)
  /\ LET r == Restore(bk.dep[i].restore, bk.volume, bk.artefact, err) IN
     bk' = [bk EXCEPT !.dep[i].restore = r.op, !.volume = r.volume]
  /\ UNCHANGED notBackup

\* the packaging run after Restore: return its error, or Schedule the backup
RunSchedules(i) ==
  /\ bk.dep[i].run = "Restore"
  /\ bk.dep[i].restore.step = "returned"
  /\ bk' = IF bk.dep[i].restore.err # ErrNil
           THEN [bk EXCEPT !.dep[i].run = "done", !.dep[i].err = "restore"]
           ELSE [bk EXCEPT !.dep[i].run = "scheduled", !.dep[i].timer = "select"]
  /\ UNCHANGED notBackup

\* the packaging run returns, by an error of a later call or after <-ctx.Done():
\* the deferred backup.Stop() begins (bd.cancel())
PackageReturns(i, err) ==
  /\ bk.dep[i].run = "scheduled"
  /\ err # ErrNil \/ bk.dep[i].cancelled
  /\ bk' = [bk EXCEPT !.dep[i].run = "Stop", !.dep[i].err = err,
                      !.dep[i].timerCancelled = TRUE]
  /\ UNCHANGED notBackup

\* the deferred backup.Stop() returned: the goroutine of the run ends, close(bd.done)
RunDone(i) ==
  /\ bk.dep[i].run = "Stop"
  /\ waited(bk.dep[i].timer = "finished")
  /\ bk' = [bk EXCEPT !.dep[i].run = "done"]
  /\ UNCHANGED notBackup

\* Timer: case <-t.C, the runnable of Schedule enters Backup
TimerTick(i) ==
  /\ bk.dep[i].timer = "select"
  /\ bk.dep[i].ticks < MaxTicks
  /\ bk' = [bk EXCEPT !.dep[i].timer = "Backup", !.dep[i].ticks = @ + 1,
                      !.dep[i].backup = BackupEntry(bk.volume)]
  /\ UNCHANGED notBackup

\* Timer: case <-ctx.Done(), the goroutine of the schedule ends
TimerCtxDone(i) ==
  /\ bk.dep[i].timer = "select"
  /\ timerDone(bk.dep[i])
  /\ bk' = [bk EXCEPT !.dep[i].timer = "finished"]
  /\ UNCHANGED notBackup

\* one call inside sw.Backup
BackupStep(i, err) ==
  /\ bk.dep[i].timer = "Backup"
  /\ InProgress(bk.dep[i].backup)
  /\ LET r == Backup(bk.dep[i].backup, bk.volume, bk.artefact, err) IN
     bk' = [bk EXCEPT !.dep[i].backup = r.op, !.artefact = r.artefact]
  /\ UNCHANGED notBackup

\* Timer: the runnable returned
TimerLogs(i) ==
  /\ bk.dep[i].timer = "Backup"
  /\ bk.dep[i].backup.step = "returned"
  /\ bk' = [bk EXCEPT !.dep[i].timer = afterTick(bk.dep[i].backup.err),
                      !.dep[i].failures = IF bk.dep[i].backup.err # ErrNil THEN @ + 1 ELSE @]
  /\ UNCHANGED notBackup

BackupNext ==
  \/ \E volume \in Volumes, artefact \in Artefacts : BackupWorld(volume, artefact)
  \/ PollStopsOld
  \/ PollSpawnsNew
  \/ PackageStopped
  \/ \E i \in 1..MaxDeploys, err \in Outcomes : RunBuilds(i, err)
  \/ \E i \in 1..MaxDeploys, err \in Outcomes : RestoreStep(i, err)
  \/ \E i \in 1..MaxDeploys : RunSchedules(i)
  \/ \E i \in 1..MaxDeploys, err \in Outcomes : PackageReturns(i, err)
  \/ \E i \in 1..MaxDeploys : RunDone(i)
  \/ \E i \in 1..MaxDeploys : TimerTick(i)
  \/ \E i \in 1..MaxDeploys : TimerCtxDone(i)
  \/ \E i \in 1..MaxDeploys, err \in Outcomes : BackupStep(i, err)
  \/ \E i \in 1..MaxDeploys : TimerLogs(i)

BackupSpec == Init /\ [][BackupNext]_backupVars

\* ================================================================ part 10
\* CommandRun.environment: the env files in the order of the command line, then the
\* system environment.  Strings are sequences of characters.
Eq == "="
Space == " "
Hash == "#"

\* the position of the first sep in s, 0 when there is none
IndexOf(s, sep) ==
  IF \E k \in DOMAIN s : s[k] = sep THEN CHOOSE k \in DOMAIN s : s[k] = sep /\ \A j \in 1..(k - 1) : s[j] # sep
  ELSE 0

\* strings.SplitN(s, sep, 2): the whole of s when sep is not in it, else what is
\* before and what is after the first sep
SplitN(s, sep) ==
  IF IndexOf(s, sep) = 0 THEN <<s>>
  ELSE <<SubSeq(s, 1, IndexOf(s, sep) - 1), SubSeq(s, IndexOf(s, sep) + 1, Len(s))>>

\* strings.TrimSpace
RECURSIVE TrimSpace(_)
TrimSpace(s) ==
  IF s = << >> THEN s
  ELSE IF Head(s) = Space THEN TrimSpace(Tail(s))
  ELSE IF s[Len(s)] = Space THEN TrimSpace(SubSeq(s, 1, Len(s) - 1))
  ELSE s

\* `env[k] = v': the map with one entry set
Put(env, k, v) == [x \in DOMAIN env \cup {k} |-> IF x = k THEN v ELSE env[x]]

\* `for k, v := range v { env[k] = v }'
Merge(env, v) == [x \in DOMAIN env \cup DOMAIN v |-> IF x \in DOMAIN v THEN v[x] ELSE env[x]]

\* the scanner loop of readEnvFile over the lines of a file
RECURSIVE scan(_)
scan(lines) ==
  IF lines = << >> THEN << >>
  ELSE LET ans == scan(SubSeq(lines, 1, Len(lines) - 1))
           line == TrimSpace(lines[Len(lines)])
       IN  IF line = << >> \/ Head(line) = Hash \/ IndexOf(line, Eq) = 0 THEN ans
           ELSE Put(ans, TrimSpace(SplitN(line, Eq)[1]), TrimSpace(SplitN(line, Eq)[2]))

\* a file of the given lines, and one that cannot be opened
File(lines) == [opens |-> TRUE, lines |-> lines]
Missing == [opens |-> FALSE, lines |-> << >>]

\* readEnvFile
readEnvFile(file) ==
  IF ~file.opens THEN [err |-> ErrOther, ans |-> << >>]
  ELSE [err |-> ErrNil, ans |-> scan(file.lines)]

\* the body of `for _, item := range os.Environ()': `if len(kv) != 0 { continue }'
mergeSystem(env, item) ==
  LET kv == SplitN(item, Eq) IN
  IF Len(kv) # 0 THEN env ELSE Put(env, kv[1], kv[2])

\* CommandRun.environment
RECURSIVE environment(_, _)
environment(files, system) ==
  IF system # << >>
  THEN LET before == environment(files, SubSeq(system, 1, Len(system) - 1))
       IN  IF before.err # ErrNil THEN before
           ELSE [before EXCEPT !.env = mergeSystem(@, system[Len(system)])]
  ELSE IF files = << >> THEN [err |-> ErrNil, env |-> << >>]
  ELSE LET before == environment(SubSeq(files, 1, Len(files) - 1), << >>)
           v == readEnvFile(files[Len(files)])
       IN  IF before.err # ErrNil THEN before
           ELSE IF v.err # ErrNil THEN [err |-> v.err, env |-> << >>]
           ELSE [before EXCEPT !.env = Merge(@, v.ans)]

\* the lines of env files and the items of os.Environ()
EnvLines == {<<"K", "=", "1">>, <<"K", " ", "=", " ", "2">>, <<"L", "=", "1">>, <<"#", "K", "=", "3">>, <<"K">>}
EnvItems == {<<"K", "=", "9">>, <<"M", "=", "9">>, <<"K", "=", "8">>}

MaxFiles == 2
MaxLines == 2
MaxItems == 2

SeqsUpTo(S, n) == UNION {[1..k -> S] : k \in 0..n}

EnvFiles == {File(lines) : lines \in SeqsUpTo(EnvLines, MaxLines)} \cup {Missing}

\* git-pipe run is started with the given --env-file options and system environment
EnvCall(files, system) ==
  /\ environ.pc = "idle"
  /\ environ' = [pc |-> "returned", files |-> files, system |-> system,
                 result |-> environment(files, system)]
  /\ UNCHANGED notEnv

\* the process ends
EnvExit ==
  /\ environ.pc = "returned"
  /\ environ' = NoEnv
  /\ UNCHANGED notEnv

EnvNext ==
  \/ \E files \in SeqsUpTo(EnvFiles, MaxFiles), system \in SeqsUpTo(EnvItems, MaxItems) :
       EnvCall(files, system)
  \/ EnvExit

EnvSpec == Init /\ [][EnvNext]_envVars

\* ---------------------------------------------------------------- properties
Executing(i) == inst[i].pc \in {"Create", "Run", "Remove"}

\* C1: at every moment at most one goroutine launched under a name is live, and it
\* is the one run.deployed holds under that name.
C1_OneDaemonPerName ==
  \A n \in Names :
    /\ Cardinality(LiveOf(n)) <= 1
    /\ \A i \in LiveOf(n) : n \in DOMAIN deployed /\ deployed[n].stop = i

\* a name is live again after an earlier goroutine of the same name has finished
C1_Witness ==
  \E i, j \in DOMAIN inst :
    /\ i < j /\ inst[i].name = inst[j].name
    /\ inst[i].pc = "done" /\ Executing(j)

\* the order the daemon interface allows between two successive calls/returns of one name
CallOrder(before, after) ==
  \/ after = before
  \/ /\ after.op = "Create" /\ after.ph = "call"
     /\ \/ before = NoCall
        \/ before.op = "Create" /\ before.ph = "fail"
        \/ before.op = "Remove" /\ before.ph \in {"ok", "fail"}
  \/ after.op = "Create" /\ after.ph = "fail" /\ before.op = "Create" /\ before.ph = "call"
  \/ after.op = "Run" /\ after.ph = "call" /\ before.op = "Create" /\ before.ph = "call"
  \/ after.op = "Run" /\ after.ph \in {"ok", "fail"} /\ before.op = "Run" /\ before.ph = "call"
  \/ /\ after.op = "Remove" /\ after.ph = "call"
     /\ before.op = "Run" /\ before.ph \in {"call", "fail"}
  \/ after.op = "Remove" /\ after.ph \in {"ok", "fail"} /\ before.op = "Remove" /\ before.ph = "call"

\* C2 as stated: calls of one name follow the order Create, Run, Remove, and a Create
\* is called only at the start or after the Remove of the previous attempt returned.
C2_Original ==
  [][ \A n \in Names :
        /\ CallOrder(lastCall[n], lastCall'[n])
        /\ lastCall'[n] # lastCall[n] /\ lastCall'[n].op = "Create" /\ lastCall'[n].ph = "call"
             => lastCall[n] = NoCall \/ lastCall[n].op = "Remove" ]_vars

\* C2 amended: for one daemon name no two of Create, Run, Remove execute at the same
\* time, Run is called only after Create returned without error, Remove only after Run
\* returned, and a Create only at the start or after the last call of the previous
\* attempt returned: its Remove, or its Create when that Create failed.
C2_SequentialCalls ==
  [][ /\ \A n \in Names : Cardinality({i \in LiveOf(n) : Executing(i)})' <= 1
      /\ \A n \in Names : CallOrder(lastCall[n], lastCall'[n]) ]_vars

\* the second attempt of a goroutine has reached Remove
C2_Witness == \E i \in DOMAIN inst : inst[i].attempts = 2 /\ inst[i].pc = "Remove"

\* goroutine i of daemon d notifies an event in this step
Notifies(i) ==
  /\ i \in DOMAIN inst
  /\ inst[i].pc \in {"Create", "Run", "notifyStopped", "Remove"}
  /\ inst'[i].pc # inst[i].pc \/ inst'[i].ready # inst[i].ready

\* m is the event daemon m.Daemon notifies in this step (the supervisor records it as
\* the daemon's last event)
NotifiedNow(m) ==
  /\ \E i \in DOMAIN inst : inst[i].name = m.Daemon /\ Notifies(i)
  /\ m.Daemon \in DOMAIN deployed' /\ deployed'[m.Daemon].lastEvent = m

\* the only ways the queue of an existing stream changes in one step: the subscriber
\* takes its head, or the event notified in this step is queued once, behind the others
StreamStep(before, after) ==
  \/ after = before
  \/ before # << >> /\ after = Tail(before)
  \/ \E m \in Range(after) : after = Append(before, m) /\ NotifiedNow(m)

\* a new stream starts empty or, with replay, with the last events of distinct live daemons
StreamStart(q) ==
  /\ \A k \in DOMAIN q : q[k].Daemon \in DOMAIN deployed /\ q[k] = deployed[q[k].Daemon].lastEvent
  /\ \A k, l \in DOMAIN q : k # l => q[k].Daemon # q[l].Daemon

\* C3: a subscriber's stream holds, for every daemon, a subsequence in emission order of
\* the events that occurred at the supervisor: a message enters a stream only in the step
\* in which it is notified, once, behind the messages queued before, and the subscriber
\* takes messages from the front; an overflow leaves the queue as it is.
C3_StreamInOrder ==
  [][ \A c \in DOMAIN chans' :
        IF c \in DOMAIN chans
        THEN StreamStep(chans[c].buf, chans'[c].buf)
        ELSE StreamStart(chans'[c].buf) ]_vars

\* a full two-slot stream holds two different events of one daemon and has missed the
\* daemon's last event (an overflow dropped it)
C3_Witness ==
  \E c \in subscribers, d \in DOMAIN deployed :
    /\ chans[c].cap = 2 /\ Len(chans[c].buf) = 2
    /\ chans[c].buf[1].Daemon = d /\ chans[c].buf[2].Daemon = d
    /\ chans[c].buf[1] # chans[c].buf[2]
    /\ \A k \in 1..2 : chans[c].buf[k] # deployed[d].lastEvent

\* a stream is closed by the shutdown of Run (not by Unsubscribe) in this step
ClosedByShutdown(c) ==
  /\ c \in DOMAIN chans /\ ~chans[c].closed
  /\ chans'[c].closed /\ c \in subscribers'

\* C4: once the context of Run is cancelled and the main loop is left, every live daemon
\* is cancelled; Run has returned only when the live set is empty and no goroutine is
\* left; and the shutdown closes a stream only when all daemons have stopped.
C4_GracefulShutdown ==
  [][ /\ (supPc = "drain" => \A i \in Live : Cancelled(i))'
      /\ (supPc = "idle" => DOMAIN deployed = {} /\ Live = {})'
      /\ \A c \in DOMAIN chans : ClosedByShutdown(c) => DOMAIN deployed = {} /\ Live = {} ]_vars

\* Run has returned after two daemons ran, and its shutdown closed a stream
C4_Witness ==
  /\ supPc = "idle" /\ Len(inst) = 2
  /\ \E c \in subscribers : chans[c].closed

\* the attempt of goroutine i has ended (runDaemon returned)
AttemptEnded(i) == inst[i].pc \in {"retryWait", "finish"}

\* C5 as stated: in every attempt Remove is invoked before the attempt ends, also when
\* Create failed.
C5_Original ==
  \A i \in Live : AttemptEnded(i) => lastCall[inst[i].name].op = "Remove"

\* C5 amended: an attempt whose Create succeeded ends only after Remove was invoked and
\* returned, whether Run succeeded or failed (an attempt whose Create failed ends without
\* Run and Remove); and Remove runs with a context of its own, bounded by cleanupTimeout.
C5_RemoveAfterCreate ==
  \A i \in Live :
    /\ AttemptEnded(i) =>
         \/ lastCall[inst[i].name].op = "Remove" /\ lastCall[inst[i].name].ph \in {"ok", "fail"}
         \/ lastCall[inst[i].name].op = "Create" /\ lastCall[inst[i].name].ph = "fail"
    /\ inst[i].pc = "Remove" =>
         inst[i].removeCtx = [parent |-> "Background", timeout |-> "cleanupTimeout"]

\* an attempt whose Run failed has ended, and its Remove was invoked and failed too
C5_Witness ==
  \E i \in Live :
    /\ inst[i].pc = "retryWait"
    /\ lastCall[inst[i].name] = [op |-> "Remove", ph |-> "fail", err |-> ErrOther]
    /\ deployed[inst[i].name].lastEvent.Event = LauncherEventRemoveFailed

\* goroutine i is live and its context is cancelled
Stopping(i) == i \in Live /\ Cancelled(i)

\* goroutine i has left the live set
Gone(i) == i \in DOMAIN inst /\ inst[i].pc = "done"

C7_RemovedAfterScheduled ==
  \A d \in DOMAIN deployed :
    deployed[d].lastEvent.Event = LauncherEventRemoved => LauncherEventScheduled \in hist[d]

\* C8 as stated: every Ready event of a daemon that the Launcher distributes is preceded
\* by a distributed Created event of that daemon.
C8_ReadyAfterCreated ==
  \A d \in DOMAIN deployed :
    deployed[d].lastEvent.Event = LauncherEventReady => LauncherEventCreated \in hist[d]

\* the calls of the attempt of goroutine i have all returned, the last one being Remove
Removed(i) ==
  /\ inst[i].pc = "retryWait"
  /\ lastCall[inst[i].name].op = "Remove"

\* C9 as stated: once Run has returned and the Remove that follows has completed, no
\* further attempt is started for the entry.
C9_Original ==
  [][ \A i \in Live : Removed(i) => inst'[i].pc # "Create" ]_vars

\* C9 amended: the retry loop is left, and the entry then deleted from the live set,
\* only when the context of the daemon is cancelled or the attempt returned
\* context.Canceled; an entry whose Run returned and whose Remove completed otherwise
\* stays in the live set and a new attempt starts after the retry interval.
C9_EntryLeavesOnCancel ==
  [][ \A i \in Live :
        /\ inst'[i].pc = "finish" /\ inst[i].pc # "finish"
             => inst[i].stopped \/ lastCall'[inst[i].name].err = ErrCanceled
        /\ inst'[i].pc = "done" => inst[i].pc = "finish"
        /\ inst'[i].pc # "done" => inst[i].name \in DOMAIN deployed' /\ deployed'[inst[i].name].stop = i ]_vars

\* Run returned without error, Remove completed, nobody cancelled the daemon: the entry
\* is still in the live set and waits for the next attempt
C9_Witness ==
  \E i \in Live :
    /\ Removed(i) /\ ~Cancelled(i)
    /\ lastCall[inst[i].name] = [op |-> "Remove", ph |-> "ok", err |-> ErrNil]
    /\ deployed[inst[i].name].lastEvent.Event = LauncherEventRemoved

\* the Remove of an attempt of goroutine i failed, with an error of the daemon
RemoveFailed(i) ==
  /\ i \in Live /\ inst[i].pc \in {"retryWait", "finish"}
  /\ lastCall[inst[i].name] = [op |-> "Remove", ph |-> "fail", err |-> ErrOther]

\* C10: a daemon whose stop was requested and whose Remove failed is eventually deleted
\* from the live set, and an entry of the live set never belongs to a goroutine that has
\* finished, so that a later Launch of the name is accepted.
C10_RemoveErrorDoesNotStick ==
  /\ [][ \A n \in DOMAIN deployed' : inst'[deployed'[n].stop].pc # "done" ]_vars
  /\ \A i \in 1..MaxInst : (Stopping(i) /\ RemoveFailed(i)) ~> (Gone(i) \/ panicked)

\* a name is launched again after the goroutine that held it was stopped, failed its
\* Remove and left the live set
C10_Witness ==
  \E i, j \in DOMAIN inst :
    /\ i < j /\ inst[i].name = inst[j].name
    /\ Gone(i) /\ Cancelled(i)
    /\ inst[j].pc = "start" /\ deployed[inst[j].name].stop = j
    /\ lastCall[inst[j].name] = [op |-> "Remove", ph |-> "fail", err |-> ErrOther]

\* the packaging runs of repository r whose goroutine has not ended
ActiveRuns(r) == {t \in DOMAIN task : task[t].repo = r /\ ~done(t)}

\* C11: at no instant two packaging runs of one repository are active: the poller
\* spawns a run only when every earlier run of the repository has ended, teardown
\* included.
C11_OneRunPerRepository ==
  [][ /\ \A r \in RepoNames : Cardinality(ActiveRuns(r))' <= 1
      /\ \A t \in DOMAIN task' \ DOMAIN task : ActiveRuns(task'[t].repo) = {} ]_pollVars

\* a repository is redeployed: its first run was stopped by the poller after it had
\* published, and its second run is up
C11_Witness ==
  \E t, u \in DOMAIN task :
    /\ t < u /\ task[t].repo = task[u].repo
    /\ done(t) /\ task[t].err = ErrNil
    /\ task[u].pc = "wait" /\ ~task[u].cancelled

\* C12: whenever the handler of the Repo daemon is in one of its waits for a Launcher
\* event and the daemon's context is cancelled, the wait can return.
C12_WaitEndsOnCancel ==
  (Waiting /\ repo.ctxDone) => ENABLED (\E dockerfile \in BOOLEAN : RepoWaitReturns(dockerfile))

\* the services held by the namespaces of the registry
Registered ==
  UNION {{reg.namespaces[n][m] : m \in DOMAIN reg.namespaces[n]} : n \in DOMAIN reg.namespaces}

\* no two registered services share a canonical domain or a (namespace, name), and
\* byDomain maps exactly the canonical domains of the registered services
UniqueServices ==
  /\ \A s, t \in Registered :
       (s.Domain = t.Domain \/ (s.Namespace = t.Namespace /\ s.Name = t.Name)) => s = t
  /\ \A s \in Registered : getDomain(s) = s.Domain
  /\ DOMAIN reg.byDomain = {s.Domain : s \in Registered}
  /\ \A d \in DOMAIN reg.byDomain : reg.byDomain[d] \in Registered /\ reg.byDomain[d].Domain = d

\* what a call Register(srv) has to return and to leave behind
RegisterContract(srv) ==
  LET domainInUse == \E s \in Registered : s.Domain = getDomain(srv)
      nameInUse == \E s \in Registered : s.Namespace = srv.Namespace /\ s.Name = srv.Name
  IN  /\ regErr' = ErrServiceDomainAlreadyUsed <=> domainInUse
      /\ regErr' = ErrServiceAlreadyRegistered <=> (~domainInUse /\ nameInUse)
      /\ regErr' # ErrNil => UNCHANGED <<reg, streams>>
      /\ regErr' = ErrNil => Registered' = Registered \cup {[srv EXCEPT !.Domain = getDomain(srv)]}

\* C13: registered services never share a canonical domain or a (namespace, name);
\* Register returns DomainInUse exactly when the canonical domain is mapped, NameInUse
\* when (namespace, name) exists, and a failed Register changes nothing and sends nothing.
C13_RegistryUnique ==
  [][ /\ UniqueServices'
      /\ \A srv \in Services : Register(srv) => RegisterContract(srv) ]_regVars

\* a Register was refused for its domain while the registry held two services
C13_Witness ==
  /\ regErr = ErrServiceDomainAlreadyUsed
  /\ Cardinality(Registered) >= 2

\* the records of one group in the list last handed to the backend
RecordsOf(group) == {r \in backend : r.Group = group}

\* the records that make up the latest accepted Set of a group
AcceptedRecords(group) ==
  {[Domain |-> d, Addresses |-> accepted[group][d], Group |-> group] : d \in DOMAIN accepted[group]}

\* C14: the record list handed to the backend has pairwise distinct domains and holds,
\* for each group, either exactly the routes of the group's latest accepted Set or no
\* route of the group.
C14_AtomicPerGroup ==
  /\ \A r1, r2 \in backend : r1.Domain = r2.Domain => r1 = r2
  /\ \A g \in RepoNames : RecordsOf(g) = {} \/ RecordsOf(g) = AcceptedRecords(g)

\* both groups have routes at the backend, every domain is taken, and the routes a
\* group holds are those of a Set that left one of its earlier domains out
C14_Witness ==
  /\ \A g \in RepoNames : RecordsOf(g) # {}
  /\ {r.Domain : r \in backend} = RouteDomains
  /\ \E g \in RepoNames : Cardinality(RecordsOf(g)) = 2

\* the routing tables a single call of Set builds, and the table before any Set
Versions == {NoRoutes} \cup {Table(Index(records)) : records \in RecordLists}

\* C15: the record (or the miss) a request is answered with is the one a single
\* version of the routing table gives for its domain, and that version was the
\* current one at some instant during the request.
C15_OneVersionPerRequest ==
  \A q \in DOMAIN request :
    request[q].pc \in {"notFound", "served"} =>
      \E table \in request[q].current \cap Versions :
        request[q].record = lookup(table, request[q].domain)

\* a request was answered with a record while the table was replaced under it
C15_Witness ==
  \E q \in DOMAIN request :
    /\ request[q].pc = "served" /\ request[q].record.ok
    /\ Cardinality(request[q].current) >= 3
    /\ request[q].domain \notin DOMAIN routes.index

\* the registry holds service srv as Register has indexed it
Held(srv) ==
  LET indexed == [srv EXCEPT !.Domain = getDomain(srv)]
  IN  /\ srv.Namespace \in DOMAIN reg.namespaces
      /\ srv.Name \in DOMAIN reg.namespaces[srv.Namespace]
      /\ reg.namespaces[srv.Namespace][srv.Name] = indexed
      /\ indexed.Domain \in DOMAIN reg.byDomain
      /\ reg.byDomain[indexed.Domain] = indexed

\* every service of daemon i is held by the registry
Published(i) == \A k \in 1..Len(dd[i].services) : Held(dd[i].services[k])

\* daemon j, of another repository, is serving the domain daemon i registers next
Taken(i, j) ==
  /\ j \in DOMAIN inst /\ j # i /\ inst[j].name # inst[i].name /\ Registering(j)
  /\ \E k \in 1..Len(dd[j].services) :
       getDomain(dd[j].services[k]) = getDomain(dd[i].services[dd[i].next + 1])

\* C16: a Register of a domain that a daemon of another repository is serving fails
\* with DomainInUse and makes the loser's Run fail, the Launcher emits RunFailed when
\* that Run returns, and as long as a daemon is serving, through every step of the
\* others, all its services stay in the registry as it registered them.
C16_LoserFailsWinnerStays ==
  [][ \A i \in 1..MaxInst :
        /\ (i \in DOMAIN inst' /\ Registering(i)') => Published(i)'
        /\ \A j \in 1..MaxInst :
             (DockerRegister(i) /\ Taken(i, j)) =>
               /\ regErr' = ErrServiceDomainAlreadyUsed
               /\ dd'[i].step = "runFailed"
               /\ Registering(j)' /\ dd'[j] = dd[j]
        /\ (i \in DOMAIN inst /\ inst[i].pc = "Run" /\ step(i) = "runFailed"
              /\ inst'[i].pc # "Run") =>
               /\ inst[i].name \in DOMAIN deployed'
               /\ deployed'[inst[i].name].lastEvent.Event = LauncherEventRunFailed
    ]_<<vars, regVars, dockerVars>>

\* the loser has failed on the winner's domain in its second attempt, after the
\* teardown of the first, and the winner is serving
C16_Witness ==
  \E i, j \in DOMAIN inst :
    /\ inst[i].name # inst[j].name
    /\ Registering(j) /\ inst[j].ready = 1
    /\ inst[i].pc = "Run" /\ inst[i].attempts = 2 /\ step(i) = "runFailed"
    /\ dd[i].next = 1
    /\ regErr = ErrServiceDomainAlreadyUsed

\* the attempt of goroutine i (Create, Run, Remove) is over
Ended(i) == inst[i].pc \in {"retryWait", "finish", "done"}

\* the registered services whose address is that of daemon i's container
ServedBy(i) == {s \in Registered : s.Address[1] = i}

\* C17: once an attempt of a packaging daemon is over, whether its Run was cancelled,
\* failed before or during registration, or its Remove failed, the registry holds no
\* service that the daemon registered.
C17_NothingLeftBehind ==
  \A i \in DOMAIN inst : Ended(i) => ServedBy(i) = {}

\* an attempt that had registered all its services and called Ready is over, and its
\* teardown has gone through every service
C17_Witness ==
  \E i \in DOMAIN inst :
    /\ inst[i].pc = "retryWait" /\ inst[i].ready = 1
    /\ step(i) = "removed" /\ dd[i].next = Len(dd[i].services) /\ dd[i].next >= 2
    /\ reg.byDomain # << >>

\* message m is offered to every listener: queued behind what its stream holds, or
\* dropped when the stream is full
Offered(m) ==
  \A c \in listening : streams'[c].buf = send(streams[c].buf, streams[c].cap, m)

C19_ReplayOnSubscribe ==
  [][ \A buffer \in 0..MaxBuf :
        RegSubscribe(buffer, TRUE) =>
          /\ ~crashed'
          /\ Len(streams') = Len(streams) + 1
          /\ Range(streams'[Len(streams')].buf) =
               {RegistryEventMessage(RegistryEventRegistered, srv) : srv \in Registered}
    ]_regVars

\* the events that `lastEvent' holds for the entries of run.deployed
LastEvents == {deployed[n].lastEvent : n \in DOMAIN deployed}

\* the stream that the Subscribe of this step returns
NewStream == chans'[Len(chans')]

\* C20 as stated: the stream of an accepted Subscribe with replay holds the last
\* event of every daemon in the live set.
C20_Original ==
  [][ \A buffer \in 1..MaxBuf :
        Subscribe(buffer, TRUE) => LastEvents \subseteq Range(NewStream.buf) ]_vars

\* C20, amended: when an accepted Subscribe with replay returns, its stream holds
\* nothing but last events of daemons in the live set, at most one per daemon, as
\* many as fit the buffer, hence the last event of every live daemon when the buffer
\* is at least the size of the live set; whatever is distributed later is queued
\* behind them, and a stream changes only by a receive at its head.
C20_ReplayFirst ==
  [][ /\ \A buffer \in 1..MaxBuf :
           Subscribe(buffer, TRUE) =>
             /\ Range(NewStream.buf) \subseteq LastEvents
             /\ Len(NewStream.buf) >= Min(buffer, Cardinality(DOMAIN deployed))
             /\ \A j, k \in DOMAIN NewStream.buf :
                  j # k => NewStream.buf[j].Daemon # NewStream.buf[k].Daemon
             /\ buffer >= Cardinality(DOMAIN deployed) => LastEvents \subseteq Range(NewStream.buf)
      /\ \A c \in DOMAIN chans :
           \/ Len(chans'[c].buf) >= Len(chans[c].buf)
              /\ SubSeq(chans'[c].buf, 1, Len(chans[c].buf)) = chans[c].buf
           \/ Len(chans[c].buf) > 0 /\ chans'[c].buf = Tail(chans[c].buf)
    ]_vars

\* a stream that a replay has filled (Scheduled is never distributed, it is only the
\* last event an entry is created with), with the daemon's next event, now its last
\* event, queued behind the replayed one
C20_Witness ==
  \E c \in subscribers :
    /\ Len(chans[c].buf) = 2
    /\ chans[c].buf[1].Event = LauncherEventScheduled
    /\ chans[c].buf[2].Event # LauncherEventScheduled
    /\ chans[c].buf[1].Daemon = chans[c].buf[2].Daemon
    /\ chans[c].buf[1].Daemon \in DOMAIN deployed
    /\ deployed[chans[c].buf[1].Daemon].lastEvent = chans[c].buf[2]

\* the event that the supervisor distributes in this step, when the step is one of
\* distributeEvent that does not crash the process: the daemon's last event changes to
\* it, or a stream gains it
Distributes(e) ==
  /\ ~panicked'
  /\ \/ \E d \in DOMAIN deployed \cap DOMAIN deployed' :
          deployed'[d].lastEvent = e /\ deployed[d].lastEvent # e
     \/ \E c \in subscribers : chans'[c].buf = Append(chans[c].buf, e)

\* the events that the step may have distributed: last events and queued events
AfterStep ==
  {deployed'[d].lastEvent : d \in DOMAIN deployed'}
    \cup UNION {Range(chans'[c].buf) : c \in subscribers}

\* goroutine i is at a return of Create, which it reports over run.events
Reporting(i) == i \in DOMAIN inst /\ inst[i].pc = "Create"

\* C21: while the supervisor is in one of its loops, a daemon's report is taken and
\* distributed whatever the state of the subscribers' buffers; in the step that
\* distributes an event, a subscriber whose buffer is full keeps its queue as it is and
\* every subscriber whose buffer has room has the event appended to its queue.
C21_DropForFullOnly ==
  [][ /\ \A i \in 1..MaxInst :
           (Reporting(i) /\ SupReceiving) => ENABLED CreateReturns(i, ErrNil)
      /\ \A e \in AfterStep :
           Distributes(e) =>
             \A c \in subscribers :
               chans'[c].buf = IF Len(chans[c].buf) >= chans[c].cap
                               THEN chans[c].buf
                               ELSE Append(chans[c].buf, e)
    ]_vars

\* two one-slot subscribers of one daemon: the first is full with an earlier event, the
\* second holds the daemon's last event, which was dropped for the first
C21_Witness ==
  \E c1, c2 \in subscribers, d \in DOMAIN deployed :
    /\ c1 # c2 /\ chans[c1].cap = 1 /\ chans[c2].cap = 1
    /\ chans[c1].buf # << >> /\ chans[c2].buf # << >>
    /\ chans[c1].buf[1].Daemon = d
    /\ chans[c1].buf[1].Event # LauncherEventScheduled
    /\ chans[c2].buf[1] = deployed[d].lastEvent
    /\ chans[c1].buf[1] # chans[c2].buf[1]

\* C22: a Launch of a live name is accepted by the main loop (the caller gets nil)
\* and changes nothing: no goroutine is started, the entry keeps its cancel function
\* and last event, the goroutine of the entry keeps its attempt, and no stream gains
\* an event.  Seen from the entries: a goroutine is only ever started for a name that
\* has no entry, and an entry keeps its cancel function as long as it exists.
C22_LaunchOfLiveNameIsIgnored ==
  [][ /\ \A name \in DOMAIN deployed :
           /\ (supPc = "loop" /\ ~panicked) => ENABLED Launch(name)
           /\ Launch(name) => UNCHANGED <<deployed, inst, chans, subscribers, hist, panicked>>
           /\ name \in DOMAIN deployed' => deployed'[name].stop = deployed[name].stop
      /\ Len(inst') > Len(inst) =>
           /\ Len(inst') = Len(inst) + 1
           /\ inst'[Len(inst')].name \notin DOMAIN deployed
    ]_vars

\* a Launch of a live name is accepted while the daemon's attempt is in Run and its
\* last event is no longer the one of its creation, and another name is being started
C22_Witness ==
  \E name \in DOMAIN deployed :
    /\ ENABLED Launch(name)
    /\ inst[deployed[name].stop].pc = "Run"
    /\ deployed[name].lastEvent.Event # LauncherEventScheduled
    /\ Len(inst) = 2

\* the package daemon's last event at the supervisor is a failure of Create or Run
PackageFailed ==
  /\ RepoName \in DOMAIN deployed
  /\ deployed[RepoName].lastEvent.Event \in {LauncherEventCreateFailed, LauncherEventRunFailed}

C24_UnknownPackagingFailsRun ==
  [][ (repo.pc = "tick" /\ repo.err = errUnknownPackage /\ repo'.pc # repo.pc) =>
        (repo'.pc = "returned" /\ repo'.err = errUnknownPackage)
    ]_<<vars, repoVars>>

\* C25: a poll on which the source reports changed=false while force is false returns
\* nil at once: the current run is neither stopped nor replaced, no run is spawned, the
\* routes stay as they are, force stays false and the poller waits for the next tick.
C25_UnchangedTickIsSkipped ==
  [][ \A r \in RepoNames :
        (PollSource(r, FALSE, TRUE) /\ ~poller[r].force) =>
          /\ UNCHANGED <<task, ingressVars>>
          /\ poller' = [poller EXCEPT ![r].pc = "state"]
    ]_pollVars

\* the poller waits for its tick with force cleared while the run it deployed is up,
\* so the next poll may find nothing changed
C25_Witness ==
  \E r \in RepoNames :
    /\ poller[r].pc = "state" /\ ~poller[r].force /\ ~poller[r].ctxDone
    /\ poller[r].current # NoTask
    /\ task[poller[r].current].pc = "wait"
    /\ ENABLED PollSource(r, FALSE, TRUE)

\* the JWT handler replied 401 or 403 to the request in the Router
Rejected == http.jwt \in {StatusUnauthorized, StatusForbidden}

\* C26: whenever the JWT handler rejects a request with 401 or 403, it is the last
\* handler of the chain that is invoked for the request, no upstream is contacted, and
\* the status the client gets is the one the JWT handler replied.
C26_RejectionEndsChain ==
  Rejected =>
    /\ http.invoked[Len(http.invoked)] = "JWT"
    /\ http.pc \in {"finish", "done"}
    /\ http.address = "" /\ http.upstream = ""
    /\ http.status = http.jwt

\* a GET request with a token for POST only was answered 403 before the Proxy
C26_Witness ==
  /\ http.pc = "done"
  /\ http.chain = <<"JWT", "Proxy">>
  /\ http.request.method = GET
  /\ getToken(http.request).methods = <<POST>>
  /\ http.jwt = StatusForbidden
  /\ http.status = StatusForbidden
  /\ http.record.Addresses # << >>

\* the JWT handler has been called for the request in the Router
Verified == http.pc # "idle" /\ Len(http.invoked) >= 1 /\ http.invoked[1] = "JWT"

\* the token the request carries
Carried == getToken(http.request)

\* missing, malformed, not HMAC-signed with the shared secret, or without aud
Unauthenticated ==
  \/ Carried.empty
  \/ ~Carried.segments
  \/ Carried.alg \notin {"HS256", "HS384", "HS512"}
  \/ Carried.key # SharedKey
  \/ Carried.aud = << >>

\* a sub that is not the record's group, or methods without the request's method,
\* both under case folding
Unauthorized ==
  \/ Carried.sub # << >> /\ Fold(Carried.sub) # Fold(http.record.Group)
  \/ /\ Carried.methods # << >>
     /\ \A k \in DOMAIN Carried.methods : Fold(Carried.methods[k]) # Fold(http.request.method)

\* the request went past the JWT handler with X-User set to aud
Proceeds ==
  /\ http.jwt = 0
  /\ http.user = Carried.aud
  /\ \/ http.pc = "chain" /\ http.k = 2
     \/ Len(http.invoked) = 2

\* C27 as stated: 401 for a missing, malformed, badly signed or aud-less token, 403
\* for a wrong sub or method, and every other request proceeds with X-User = aud.
C27_Original ==
  Verified =>
    IF Unauthenticated THEN http.jwt = StatusUnauthorized
    ELSE IF Unauthorized THEN http.jwt = StatusForbidden
    ELSE Proceeds

\* C27: as C27_Original, with 401 also for a token whose registered time claims
\* (exp, nbf, iat) are not valid at the time of the request.
C27_Decision ==
  Verified =>
    IF Unauthenticated \/ ~Carried.timely THEN http.jwt = StatusUnauthorized
    ELSE IF Unauthorized THEN http.jwt = StatusForbidden
    ELSE Proceeds

\* a GET request whose token names the group as "G" and the method as "get" reached
\* the handler behind JWT with X-User set
C27_Witness ==
  /\ Verified
  /\ Len(http.invoked) = 2
  /\ http.request.method = GET
  /\ Carried.sub = <<"G">>
  /\ Carried.methods = <<Fold(GET)>>
  /\ http.request.authorization # << >>
  /\ http.user = <<"c">>

\* the Proxy handler has been called for the request in the Router
Proxied == http.pc # "idle" /\ Len(http.invoked) >= 1 /\ http.invoked[Len(http.invoked)] = "Proxy"

\* C28: when the matched record has no addresses the Proxy replies 502 and contacts
\* no upstream; otherwise the address it proxies to is one of the record's addresses.
C28_ProxyPicksAddress ==
  Proxied =>
    IF http.record.Addresses = << >>
    THEN /\ http.pc # "panicked"
         /\ http.upstream = ""
         /\ http.invoked = <<"Proxy">> => http.status = StatusBadGateway
    ELSE /\ \E k \in DOMAIN http.record.Addresses : http.address = http.record.Addresses[k]
         /\ http.upstream \in {"", http.address}

\* ServeHTTP found no record for the request in the Router
Missed == http.pc \notin {"idle", "ServeHTTP"} /\ ~http.routed

\* C29: a request whose routing key is not in the current routing table (or that
\* arrives before any table was set) is answered 404, with the index page or plain
\* when the index is disabled, and no handler of the chain is invoked for it.
C29_MissIsNotFound ==
  Missed =>
    /\ http.status = StatusNotFound
    /\ http.page = IF http.disableIndex THEN "plain" ELSE "index"
    /\ http.invoked = << >>
    /\ http.upstream = ""
    /\ http.pc = "done"

\* a request for a domain that a table with another domain does not hold got the index
C29_Witness ==
  /\ Missed
  /\ http.table.ok
  /\ DOMAIN http.table.index # {}
  /\ http.domain \notin DOMAIN http.table.index
  /\ http.chain # << >>
  /\ http.page = "index"

\* the request in the Router was routed and its response is complete
Answered == http.pc = "done" /\ http.routed

\* C30: for every routed request the X-Correlation-ID header of the response equals
\* the X-Correlation-ID header of the request, whatever value a handler or the
\* upstream has set on the response.
C30_CorrelationEchoed ==
  Answered => http.status # 0 /\ http.sent = http.request.corr

\* the groups that hold a domain of the call setErr answers
Holders == {addressesByDomain[d].group : d \in setErr.domains \cap DOMAIN addressesByDomain}

\* C40: when cachedIngress.Set is rejected because a requested domain is held by
\* another group, the cache and the backend are left as they were and the
\* ErrDomainUsed that is returned names a group that holds a requested domain, not
\* the group of the call.
C40_RefusedSetNamesHolder ==
  [][ (setErr' # setErr /\ setErr'.err = ErrDomainUsed) =>
        /\ UNCHANGED ingressVars
        /\ setErr'.LeaserGroup # setErr'.group
        /\ \E d \in setErr'.domains \cap DOMAIN addressesByDomain :
              addressesByDomain[d].group = setErr'.LeaserGroup ]_<<ingressVars, clientVars>>

\* C35: each subscriber stream of the Launcher is closed once only, by Unsubscribe
\* or by the shutdown of Run, and no event is sent to a stream that has been closed;
\* this holds over successive invocations of Run.  (In Go a second close and a send
\* to a closed channel both panic.)
C35_StreamsClosedOnce ==
  [][ /\ ~panicked => ~panicked'
      /\ \A c \in DOMAIN chans :
           chans[c].closed => chans'[c].closed /\ Len(chans'[c].buf) <= Len(chans[c].buf) ]_vars

FailedEvents == {LauncherEventCreateFailed, LauncherEventRunFailed, LauncherEventRemoveFailed}

\* C38: every CreateFailed, RunFailed and RemoveFailed event carries the error that
\* the failing operation of the daemon returned, and every other event carries none.
C38_FailedEventsCarryError ==
  [][ \A d \in DOMAIN deployed \cap DOMAIN deployed' :
        deployed'[d].lastEvent # deployed[d].lastEvent =>
          LET ev == deployed'[d].lastEvent IN
          IF ev.Event \in FailedEvents
          THEN ev.Error # ErrNil /\ ev.Error = lastCall'[d].err
          ELSE ev.Error = ErrNil ]_vars

\* the stream of the handler holds an event that ends its wait
Awaited ==
  \E k \in DOMAIN chans[repo.updates].buf : matches(chans[repo.updates].buf[k], RepoName, waitMask)

\* C36: a redeploy tick of the Repo daemon does not wait forever while the Launcher
\* is running: whenever the handler waits for Removed|RemoveFailed of the packaging
\* daemon and the Launcher's loop runs, either a daemon of that name is live (so that
\* its removal will be reported) or the event is already in the handler's stream.
C36_FirstTickGoesOn ==
  (repo.pc = "waitRemoved" /\ supPc = "loop" /\ ~panicked) =>
    (RepoName \in DOMAIN deployed \/ Awaited)

FilesWith(k) ==
  {i \in DOMAIN environ.files : k \in DOMAIN readEnvFile(environ.files[i]).ans}

ItemsWith(k) ==
  {i \in DOMAIN environ.system : SplitN(environ.system[i], Eq)[1] = k}

EnvKeys == {<<"K">>, <<"L">>, <<"M">>}

\* the environment was built without an error
Built == environ.pc = "returned" /\ environ.result.err = ErrNil

\* among the env files the last one that defines a key gives its value
LaterFileWins(k) ==
  FilesWith(k) # {} =>
    /\ k \in DOMAIN environ.result.env
    /\ environ.result.env[k] = readEnvFile(environ.files[Max(FilesWith(k))]).ans[k]

\* C34: when a key is defined in several sources the later one wins: a later env
\* file overrides the earlier ones, and the system environment, merged last,
\* overrides all env files.
C34_LaterSourceWins ==
  Built =>
    \A k \in EnvKeys :
      IF ItemsWith(k) # {}
      THEN /\ k \in DOMAIN environ.result.env
           /\ environ.result.env[k] = SplitN(environ.system[Max(ItemsWith(k))], Eq)[2]
      ELSE LaterFileWins(k)

\* ------------------------------------------------------------ part 9 claims
Deploys == 1..MaxDeploys

\* C32: every temporary file a Backup or a Restore created has been deleted when the
\* operation has returned, whatever the return path
C32_TempFilesDeleted ==
  \A i \in Deploys :
    /\ bk.dep[i].restore.step = "returned" => bk.dep[i].restore.files = {}
    /\ bk.dep[i].backup.step = "returned" => bk.dep[i].backup.files = {}

\* the Restore of run i has returned after the backend answered that it keeps nothing
AbsentReturned(i) ==
  /\ bk.dep[i].run = "Restore"
  /\ bk.dep[i].restore.step = "returned"
  /\ bk.dep[i].restore.answer = ErrBackupNotExists

\* C33 as stated: with no artefact Restore returns success, decrypts nothing, extracts
\* nothing and has changed nothing else about the volumes
C33_Original ==
  \A i \in Deploys :
    AbsentReturned(i) =>
      /\ bk.dep[i].restore.err = ErrNil
      /\ ~bk.dep[i].restore.decrypted
      /\ ~bk.dep[i].restore.extracted
      /\ bk.volume = bk.dep[i].restore.entry

\* C33: with no artefact Restore returns success, decrypts nothing, extracts nothing
\* and leaves the content of the volumes as it was; the volume exists afterwards,
\* created by ensureVolumes if it was missing
C33_AbsentArtefactKeepsContent ==
  \A i \in Deploys :
    AbsentReturned(i) =>
      /\ bk.dep[i].restore.err = ErrNil
      /\ ~bk.dep[i].restore.decrypted
      /\ ~bk.dep[i].restore.extracted
      /\ bk.volume.content = bk.dep[i].restore.entry.content
      /\ bk.volume.exists

C33_Witness ==
  \E i \in Deploys :
    /\ AbsentReturned(i)
    /\ ~bk.dep[i].restore.entry.exists
    /\ bk.volume.exists

\* C31: the schedule goes back to waiting for the next tick after every Backup, failed
\* or not; its goroutine ends only when its context is done; the Stop of the run
\* returns only after that goroutine has finished, and from then on the schedule
\* starts no Backup
C31_ScheduleRunsUntilStopped ==
  [][\A i \in Deploys :
       /\ (bk.dep[i].timer = "Backup" /\ bk'.dep[i].timer # "Backup")
            => bk'.dep[i].timer = "select"
       /\ (bk.dep[i].timer = "select" /\ bk'.dep[i].timer = "finished")
            => timerDone(bk.dep[i])
       /\ (bk.dep[i].run = "Stop" /\ bk'.dep[i].run = "done")
            => bk.dep[i].timer = "finished"
       /\ (bk.dep[i].run = "done" /\ bk.dep[i].timer # "none")
            => /\ bk'.dep[i].timer = "finished"
               /\ bk'.dep[i].backup = bk.dep[i].backup
               /\ ~InProgress(bk.dep[i].backup)]_backupVars

\* a tick failed, a later tick succeeded, and the Stop of the run has returned
C31_Witness ==
  \E i \in Deploys :
    /\ bk.dep[i].run = "done"
    /\ bk.dep[i].failures >= 1
    /\ bk.dep[i].ticks > bk.dep[i].failures
    /\ bk.dep[i].backup.step = "returned"
    /\ bk.dep[i].backup.err = ErrNil

\* C39: no Backup of the repository is in progress while a Restore of the repository
\* is, whichever packaging runs they belong to
C39_NoBackupDuringRestore ==
  \A i \in Deploys, j \in Deploys :
    ~(InProgress(bk.dep[i].backup) /\ InProgress(bk.dep[j].restore))

\* the Restore of a run is in progress after the schedule of the run before it
\* made a Backup
C39_Witness ==
  \E i \in Deploys, j \in Deploys :
    /\ i < j
    /\ bk.dep[i].ticks >= 1
    /\ bk.dep[i].timer = "finished"
    /\ InProgress(bk.dep[j].restore)

====
